---- MODULE Spec2Model ----
(***************************************************************************)
(* Cell Eater: the per-frame gameplay simulation of src/src/systems.ts     *)
(* (movement with repulsion, food spawn, split, merge, the collision       *)
(* callbacks), the lifecycle handlers of src/src/game.ts, and the rollback *)
(* harness of src/tests/test-rollback.ts.                                  *)
(*                                                                         *)
(* Numbers.  The code computes on JavaScript numbers and the build turns   *)
(* Math.sqrt into the engine's dSqrt.  Here every length is an integer     *)
(* count of 1/FP world units, a product or quotient is rounded toward zero *)
(* and dSqrt is the integer square root.  Comparisons against fractional   *)
(* constants (EAT_RATIO, 0.5, 0.2) are cross-multiplied, so they are exact *)
(* on the represented values.                                              *)
(***************************************************************************)
EXTENDS Integers, Sequences, FiniteSets, TLC

(***************************************************************************)
(* Program constants (src/src/constants.ts; SPLIT_VELOCITY is the value of *)
(* src/src/game.fixed.ts).                                                 *)
(***************************************************************************)
WORLD_WIDTH == 6000
WORLD_HEIGHT == 6000
SPEED == 200
INITIAL_RADIUS == 20
MAX_RADIUS == 200
\* EAT_RATIO = 1.2
EAT_RATIO_NUM == 12
EAT_RATIO_DEN == 10
\* FOOD_GROW = 0.05
FOOD_GROW_NUM == 5
FOOD_GROW_DEN == 100
\* PLAYER_GROW = 0.3
PLAYER_GROW_NUM == 3
PLAYER_GROW_DEN == 10
MAX_FOOD == 1600
\* FOOD_SPAWN_CHANCE = 0.15
FOOD_SPAWN_CHANCE_NUM == 15
FOOD_SPAWN_CHANCE_DEN == 100
MIN_SPLIT_RADIUS == 15
SPLIT_VELOCITY == 15
MAX_CELLS_PER_PLAYER == 16
MERGE_DELAY_FRAMES == 600
\* COLORS.length
NUM_COLORS == 24
\* radius of the 'food' entity definition
FOOD_RADIUS == 8
\* Math.SQRT2 = SQRT2_NUM / SQRT2_DEN
SQRT2_NUM == 1414214
SQRT2_DEN == 1000000
\* systems.ts imports SPLIT_CONTROL_DELAY from constants.ts, which does not
\* define it: the length of the "short lockout window" of the specification.
SPLIT_CONTROL_DELAY == 2
\* the fixed-point unit: one world unit is FP model units
FP == 4

(***************************************************************************)
(* Arithmetic.                                                             *)
(***************************************************************************)
Min(a, b) == IF a < b THEN a ELSE b
Max(a, b) == IF a > b THEN a ELSE b

\* a / b on numbers, rounded toward zero (b > 0)
FDiv(a, b) == IF a >= 0 THEN a \div b ELSE -((-a) \div b)

\* the engine's deterministic square root (Math.sqrt after the build): the
\* integer part of the root of n, 0 <= n < 2^31 - 1, found digit by digit in
\* base 36
dSqrt(n) ==
    LET Sq(x) == IF x > 46340 THEN 2147483647 ELSE x * x
        a == CHOOSE d \in 0..35 : Sq(d * 1296) <= n /\ n < Sq((d + 1) * 1296)
        b == CHOOSE d \in 0..35 :
                Sq(a * 1296 + d * 36) <= n /\ n < Sq(a * 1296 + (d + 1) * 36)
        c == CHOOSE d \in 0..35 :
                Sq(a * 1296 + b * 36 + d) <= n /\ n < Sq(a * 1296 + b * 36 + d + 1)
    IN  a * 1296 + b * 36 + c

\* lengths in model units
WW == WORLD_WIDTH * FP
WH == WORLD_HEIGHT * FP
MaxR == MAX_RADIUS * FP

(***************************************************************************)
(* The deterministic PRNG (engine collaborator): a state word, a draw in   *)
(* [0,1) read as rng / RNG_MOD, and the step to the next state.            *)
(***************************************************************************)
RNG_MOD == 65536
RNG_MUL == 25173
RNG_INC == 13849
RngNext(s) == (s * RNG_MUL + RNG_INC) % RNG_MOD
\* (dRandom() * n) | 0 for the draw made in state s
RandInt(s, n) == (s * n) \div RNG_MOD

(***************************************************************************)
(* Maps (cellMergeFrame, cellSplitFrame): functions on the set of keys.    *)
(***************************************************************************)
MapGet(m, k) == IF k \in DOMAIN m THEN m[k] ELSE 0
MapSet(m, k, v) == [x \in (DOMAIN m) \cup {k} |-> IF x = k THEN v ELSE m[x]]
MapDelete(m, k) == [x \in (DOMAIN m) \ {k} |-> m[x]]
EmptyMap == [x \in {} |-> 0]

(***************************************************************************)
(* Client identifier strings and their lexicographic order.                *)
(***************************************************************************)
ClientStrs == {"p1", "p2"}
StrRank(s) == CASE s = "" -> 0 [] s = "p1" -> 1 [] s = "p2" -> 2

compareStrings(a, b) ==
    IF StrRank(a) < StrRank(b) THEN -1
    ELSE IF StrRank(a) > StrRank(b) THEN 1 ELSE 0

\* game.getClientIdString(numericId): "" stands for undefined
getClientIdString(W, num) ==
    IF num \in 1..Len(W.clients) THEN W.clients[num] ELSE ""

\* variant: the key is taken from the interned number
getClientIdStr_ByNumber(W, num) == IF num = 1 THEN "p1" ELSE "p2"

getClientIdStr(W, num) == getClientIdString(W, num)

\* the numeric id game.internClientId(str) returns
InternedId(W, str) ==
    IF \E i \in 1..Len(W.clients) : W.clients[i] = str
    THEN CHOOSE i \in 1..Len(W.clients) : W.clients[i] = str
    ELSE Len(W.clients) + 1

\* the intern table after game.internClientId(str)
InternClients(W, str) ==
    IF \E i \in 1..Len(W.clients) : W.clients[i] = str
    THEN W.clients ELSE Append(W.clients, str)

(***************************************************************************)
(* The entity store (engine collaborator).  W.ents is the sequence of all  *)
(* entities ever spawned, indexed by entity identifier; a destroyed entity *)
(* keeps its last component values and has destroyed = TRUE.  Sprite and   *)
(* Body2D radius are always assigned together and are one field here.      *)
(***************************************************************************)
Ids(W) == 1..Len(W.ents)

IsCell(W, id) == W.ents[id].type = "cell"
IsFood(W, id) == W.ents[id].type = "food"
LiveCells(W) == {id \in Ids(W) : IsCell(W, id) /\ ~W.ents[id].destroyed}
LiveFood(W) == {id \in Ids(W) : IsFood(W, id) /\ ~W.ents[id].destroyed}
\* game.getEntitiesByType('food').length: the pellets of the entity store and
\* the pellets out of every cell's reach, kept as a count (farFood)
FoodCount(W) == Cardinality(LiveFood(W)) + W.farFood

\* the ascending sequence of the elements of a finite set of integers
SetToSeq(S) ==
    IF S = {} THEN <<>>
    ELSE LET hi == CHOOSE x \in S : \A y \in S : y <= x
         IN  SelectSeq([i \in 1..hi |-> i], LAMBDA x : x \in S)

\* Array.prototype.sort with comparator cmp (negative: a before b); stable
ArraySort(seq, cmp(_, _)) ==
    LET n == Len(seq)
        before(i, j) == \/ cmp(seq[i], seq[j]) < 0
                        \/ (cmp(seq[j], seq[i]) >= 0 /\ cmp(seq[i], seq[j]) = 0 /\ i < j)
        rank(i) == Cardinality({j \in 1..n : j # i /\ before(j, i)})
    IN  SubSeq([k \in 1..n |-> seq[CHOOSE i \in 1..n : rank(i) = k - 1]], 1, n)

\* game.spawn(type, values): the new entity gets the next identifier
Spawn(W, ent) == [W EXCEPT !.ents = Append(@, ent)]

Destroy(W, id) == [W EXCEPT !.ents[id].destroyed = TRUE]

\* getPlayerCells(game, clientId) of systems.ts, as the set it enumerates
getPlayerCells(W, clientId) ==
    {id \in Ids(W) : /\ IsCell(W, id)
                     /\ W.ents[id].clientId = clientId
                     /\ ~W.ents[id].destroyed}

(***************************************************************************)
(* Ownership grouping: [...game.query('cell')].sort by id, the playerCells *)
(* Map (keys in insertion order), and sortedPlayers.                       *)
(***************************************************************************)
allCells(W) == SetToSeq({id \in Ids(W) : IsCell(W, id)})

\* variant: destroyed cells are kept
groupedCells_WithDestroyed(W) ==
    SelectSeq(allCells(W), LAMBDA id : W.ents[id].clientId # 0)

groupedCells(W) ==
    SelectSeq(allCells(W), LAMBDA id : ~W.ents[id].destroyed /\ W.ents[id].clientId # 0)

\* the cells that insert a new key into playerCells: the first of each owner
FirstSeen(W, cells) ==
    SelectSeq(cells, LAMBDA id : \A other \in 1..(id - 1) :
                        ~(/\ \E k \in 1..Len(cells) : cells[k] = other
                          /\ W.ents[other].clientId = W.ents[id].clientId))

playerCells(W) ==
    LET grouped == groupedCells(W)
        first == FirstSeen(W, grouped)
    IN  SubSeq([k \in 1..Len(first) |->
                   [clientId |-> W.ents[first[k]].clientId,
                    cells |-> SelectSeq(grouped,
                                LAMBDA id : W.ents[id].clientId = W.ents[first[k]].clientId)]],
               1, Len(first))

\* variant: players ordered by the interned numeric id
PlayerOrder_ByInternedId(W, a, b) == a.clientId - b.clientId

PlayerOrder(W, a, b) ==
    compareStrings(getClientIdStr(W, a.clientId), getClientIdStr(W, b.clientId))

sortedPlayers(W) == ArraySort(playerCells(W), LAMBDA a, b : PlayerOrder(W, a, b))

(***************************************************************************)
(* Inputs: game.world.getInput(clientId).  An input is                     *)
(* [target, tx, ty, split]; NoInput stands for undefined.                  *)
(***************************************************************************)
NoInput == [target |-> FALSE, tx |-> 0, ty |-> 0, split |-> FALSE]
getInput(W, clientId) == IF clientId \in DOMAIN W.inputs THEN W.inputs[clientId] ELSE NoInput

(***************************************************************************)
(* Spawn functions.                                                        *)
(***************************************************************************)
\* variant: the position is drawn before the color
spawnFood_PositionFirst(W) ==
    LET s0 == W.rng
        s1 == RngNext(s0)
        s2 == RngNext(s1)
        ent == [type |-> "food", destroyed |-> FALSE,
                x |-> (50 + RandInt(s0, WORLD_WIDTH - 100)) * FP,
                y |-> (50 + RandInt(s1, WORLD_HEIGHT - 100)) * FP,
                radius |-> FOOD_RADIUS * FP, vx |-> 0, vy |-> 0,
                clientId |-> 0, color |-> RandInt(s2, NUM_COLORS)]
    IN  [Spawn(W, ent) EXCEPT !.rng = RngNext(s2)]

spawnFood(W) ==
    LET s0 == W.rng
        s1 == RngNext(s0)
        s2 == RngNext(s1)
        ent == [type |-> "food", destroyed |-> FALSE,
                x |-> (50 + RandInt(s1, WORLD_WIDTH - 100)) * FP,
                y |-> (50 + RandInt(s2, WORLD_HEIGHT - 100)) * FP,
                radius |-> FOOD_RADIUS * FP, vx |-> 0, vy |-> 0,
                clientId |-> 0, color |-> RandInt(s0, NUM_COLORS)]
    IN  [Spawn(W, ent) EXCEPT !.rng = RngNext(s2)]

\* SpawnCellOptions: each option with a flag saying whether it is supplied
NoOptions == [hasColor |-> FALSE, color |-> 0, hasX |-> FALSE, x |-> 0,
              hasY |-> FALSE, y |-> 0, radius |-> 0,
              hasV |-> FALSE, vx |-> 0, vy |-> 0]

\* variant: the owner argument is ignored
spawnCell_FirstClient(W, clientStr, options) ==
    LET s0 == W.rng
        s1 == IF options.hasColor THEN s0 ELSE RngNext(s0)
        s2 == IF options.hasX THEN s1 ELSE RngNext(s1)
        s3 == IF options.hasY THEN s2 ELSE RngNext(s2)
        ent == [type |-> "cell", destroyed |-> FALSE,
                x |-> IF options.hasX THEN options.x
                      ELSE (100 + RandInt(s1, WORLD_WIDTH - 200)) * FP,
                y |-> IF options.hasY THEN options.y
                      ELSE (100 + RandInt(s2, WORLD_HEIGHT - 200)) * FP,
                radius |-> IF options.radius # 0 THEN options.radius
                           ELSE INITIAL_RADIUS * FP,
                vx |-> IF options.hasV THEN options.vx ELSE 0,
                vy |-> IF options.hasV THEN options.vy ELSE 0,
                clientId |-> 1,
                color |-> IF options.hasColor THEN options.color
                          ELSE RandInt(s0, NUM_COLORS)]
    IN  [Spawn(W, ent) EXCEPT !.rng = s3, !.clients = InternClients(W, clientStr)]

spawnCell(W, clientStr, options) ==
    LET s0 == W.rng
        s1 == IF options.hasColor THEN s0 ELSE RngNext(s0)
        s2 == IF options.hasX THEN s1 ELSE RngNext(s1)
        s3 == IF options.hasY THEN s2 ELSE RngNext(s2)
        ent == [type |-> "cell", destroyed |-> FALSE,
                x |-> IF options.hasX THEN options.x
                      ELSE (100 + RandInt(s1, WORLD_WIDTH - 200)) * FP,
                y |-> IF options.hasY THEN options.y
                      ELSE (100 + RandInt(s2, WORLD_HEIGHT - 200)) * FP,
                radius |-> IF options.radius # 0 THEN options.radius
                           ELSE INITIAL_RADIUS * FP,
                vx |-> IF options.hasV THEN options.vx ELSE 0,
                vy |-> IF options.hasV THEN options.vy ELSE 0,
                clientId |-> InternedId(W, clientStr),
                color |-> IF options.hasColor THEN options.color
                          ELSE RandInt(s0, NUM_COLORS)]
    IN  [Spawn(W, ent) EXCEPT !.rng = s3, !.clients = InternClients(W, clientStr)]

(***************************************************************************)
(* Movement system with integrated repulsion.                              *)
(***************************************************************************)
\* variant: the pair is pulled together
PairPush_Inward(W, a, b) ==
    LET A == W.ents[a]
        B == W.ents[b]
        dx == A.x - B.x
        dy == A.y - B.y
        distSq == dx * dx + dy * dy
        minDist == A.radius + B.radius
        minDistSq == minDist * minDist
    IN  IF distSq < minDistSq /\ distSq > FP * FP
        THEN LET dist == dSqrt(distSq)
                 overlap == minDist - dist
                 pushForce == FDiv(overlap * 3, 10) + FP
             IN  [vx |-> -FDiv(dx * pushForce, dist), vy |-> -FDiv(dy * pushForce, dist)]
        ELSE [vx |-> 0, vy |-> 0]

\* variant: no minimum epsilon, only the sqrt fallback
PairPush_NoEpsilon(W, a, b) ==
    LET A == W.ents[a]
        B == W.ents[b]
        dx == A.x - B.x
        dy == A.y - B.y
        distSq == dx * dx + dy * dy
        minDist == A.radius + B.radius
        minDistSq == minDist * minDist
    IN  IF distSq < minDistSq
        THEN LET dist == IF dSqrt(distSq) = 0 THEN FP ELSE dSqrt(distSq)
                 overlap == minDist - dist
                 pushForce == FDiv(overlap * 3, 10) + FP
             IN  [vx |-> FDiv(dx * pushForce, dist), vy |-> FDiv(dy * pushForce, dist)]
        ELSE [vx |-> 0, vy |-> 0]

\* the push of the pair (A, B) on A, systems.ts:132-151
PairPush(W, a, b) ==
    LET A == W.ents[a]
        B == W.ents[b]
        dx == A.x - B.x
        dy == A.y - B.y
        distSq == dx * dx + dy * dy
        minDist == A.radius + B.radius
        minDistSq == minDist * minDist
    IN  IF distSq < minDistSq /\ distSq > FP * FP
        THEN LET dist == dSqrt(distSq)
                 overlap == minDist - dist
                 pushForce == FDiv(overlap * 3, 10) + FP
             IN  [vx |-> FDiv(dx * pushForce, dist), vy |-> FDiv(dy * pushForce, dist)]
        ELSE [vx |-> 0, vy |-> 0]

\* the pairs (i, j), i < j, of 1..n in nested-loop order
PairsOf(n) ==
    SelectSeq([k \in 1..(n * n) |-> <<((k - 1) \div n) + 1, ((k - 1) % n) + 1>>],
              LAMBDA p : p[1] < p[2])

\* variant: only the first cell of a pair is pushed
RECURSIVE AccumulatePairs_OneSided(_, _, _, _)
AccumulatePairs_OneSided(W, siblings, i, j) ==
    IF j > Len(siblings) THEN [vx |-> 0, vy |-> 0]
    ELSE LET rest == AccumulatePairs_OneSided(W, siblings, i, j + 1)
             f == PairPush(W, siblings[i], siblings[j])
         IN  IF j > i THEN [vx |-> rest.vx + f.vx, vy |-> rest.vy + f.vy] ELSE rest

\* what the pair loops add to the repulsion entry of siblings[i]: the push of
\* every pair (i, j), j > i, and the opposite of the push of every pair
\* (j, i), j < i; summed here from partner j on (the sums are of integers,
\* so the order of the additions does not matter)
RECURSIVE AccumulatePairs(_, _, _, _)
AccumulatePairs(W, siblings, i, j) ==
    IF j > Len(siblings) THEN [vx |-> 0, vy |-> 0]
    ELSE LET rest == AccumulatePairs(W, siblings, i, j + 1)
             f == IF j > i THEN PairPush(W, siblings[i], siblings[j])
                  ELSE PairPush(W, siblings[j], siblings[i])
         IN  IF j = i THEN rest
             ELSE IF j > i THEN [vx |-> rest.vx + f.vx, vy |-> rest.vy + f.vy]
             ELSE [vx |-> rest.vx - f.vx, vy |-> rest.vy - f.vy]

\* the repulsion Map after the first loop over sortedPlayers
Repulsion(W) ==
    LET players == sortedPlayers(W)
        grouped == {id \in Ids(W) : \E k \in 1..Len(players) :
                       \E i \in 1..Len(players[k].cells) : players[k].cells[i] = id}
        siblingsOf(id) ==
            players[CHOOSE k \in 1..Len(players) :
                       \E i \in 1..Len(players[k].cells) : players[k].cells[i] = id].cells
        indexOf(id) == CHOOSE i \in 1..Len(siblingsOf(id)) : siblingsOf(id)[i] = id
    IN  [id \in grouped |->
            IF Len(siblingsOf(id)) < 2 THEN [vx |-> 0, vy |-> 0]
            ELSE AccumulatePairs(W, siblingsOf(id), indexOf(id), 1)]

\* variant: the repulsion is added only to a moving cell
DesiredVelocity_RepulsionIfMoving(W, id, playerInput, rep) ==
    LET c == W.ents[id]
        dx == playerInput.tx - c.x
        dy == playerInput.ty - c.y
        d0 == dSqrt(dx * dx + dy * dy)
        dist == IF d0 = 0 THEN 1 ELSE d0
        moving == playerInput.target /\ 5 * dist > c.radius
    IN  IF moving
        THEN [vx |-> FDiv(dx * SPEED * FP, dist) + (IF id \in DOMAIN rep THEN rep[id].vx ELSE 0),
              vy |-> FDiv(dy * SPEED * FP, dist) + (IF id \in DOMAIN rep THEN rep[id].vy ELSE 0)]
        ELSE [vx |-> 0, vy |-> 0]

\* the velocity the movement loop computes for one cell, systems.ts:163-182
DesiredVelocity(W, id, playerInput, rep) ==
    LET c == W.ents[id]
        dx == playerInput.tx - c.x
        dy == playerInput.ty - c.y
        d0 == dSqrt(dx * dx + dy * dy)
        dist == IF d0 = 0 THEN 1 ELSE d0
        moving == playerInput.target /\ 5 * dist > c.radius
        ivx == IF moving THEN FDiv(dx * SPEED * FP, dist) ELSE 0
        ivy == IF moving THEN FDiv(dy * SPEED * FP, dist) ELSE 0
    IN  [vx |-> ivx + (IF id \in DOMAIN rep THEN rep[id].vx ELSE 0),
         vy |-> ivy + (IF id \in DOMAIN rep THEN rep[id].vy ELSE 0)]

\* variant: no lockout
ControlRegained_AtOnce(W, id) == TRUE

\* framesSinceSplit > SPLIT_CONTROL_DELAY, systems.ts:185-187
ControlRegained(W, id) == W.frame - MapGet(W.splitFrame, id) > SPLIT_CONTROL_DELAY

\* variant: no clamp
ClampX_Unclamped(x, r) == x

ClampX(x, r) == Max(r, Min(WW - r, x))
ClampY(y, r) == Max(r, Min(WH - r, y))

MoveCell(W, id, playerInput, rep) ==
    LET c == W.ents[id]
        v == DesiredVelocity(W, id, playerInput, rep)
        set == ControlRegained(W, id)
    IN  [c EXCEPT !.vx = IF set THEN v.vx ELSE @,
                  !.vy = IF set THEN v.vy ELSE @,
                  !.x = ClampX(@, c.radius),
                  !.y = ClampY(@, c.radius)]

MovementSystem(W) ==
    LET rep == Repulsion(W)
        moved == DOMAIN rep
    IN  [W EXCEPT !.ents = [id \in Ids(W) |->
                                IF id \in moved
                                THEN MoveCell(W, id, getInput(W, W.ents[id].clientId), rep)
                                ELSE W.ents[id]]]

(***************************************************************************)
(* Food spawning system.                                                   *)
(***************************************************************************)
\* Math.random() < FOOD_SPAWN_CHANCE for the draw made in state s
ShouldSpawn(s) == s * FOOD_SPAWN_CHANCE_DEN < FOOD_SPAWN_CHANCE_NUM * RNG_MOD

\* variant: no cap on the number of pellets
FoodSpawnSystem_Uncapped(W) ==
    LET drawn == [W EXCEPT !.rng = RngNext(W.rng)]
    IN  IF ShouldSpawn(W.rng) THEN spawnFood(drawn) ELSE drawn

FoodSpawnSystem(W) ==
    LET drawn == [W EXCEPT !.rng = RngNext(W.rng)]
    IN  IF ShouldSpawn(W.rng) /\ FoodCount(W) < MAX_FOOD
        THEN spawnFood(drawn) ELSE drawn

(***************************************************************************)
(* Split system.                                                           *)
(***************************************************************************)
\* variant: the radius is halved
HalvedRadius_Half(r) == FDiv(r, 2)

\* sprite.radius / Math.SQRT2
HalvedRadius(r) == FDiv(r * SQRT2_DEN, SQRT2_NUM)

\* variant: no default direction
SplitOptions_ZeroDefault(c, playerInput, newRadius) ==
    LET dx == playerInput.tx - c.x
        dy == playerInput.ty - c.y
        dist == dSqrt(dx * dx + dy * dy)
    IN  [hasColor |-> TRUE, color |-> c.color,
         hasX |-> TRUE,
         x |-> c.x + (IF dist > 0 THEN FDiv(dx * newRadius * 2, dist) ELSE 0),
         hasY |-> TRUE,
         y |-> c.y + (IF dist > 0 THEN FDiv(dy * newRadius * 2, dist) ELSE 0),
         radius |-> newRadius,
         hasV |-> TRUE,
         vx |-> IF dist > 0 THEN FDiv(dx * SPLIT_VELOCITY * FP, dist) ELSE 0,
         vy |-> IF dist > 0 THEN FDiv(dy * SPLIT_VELOCITY * FP, dist) ELSE 0]

\* the options of the spawnCell call of the split, systems.ts:254-261
SplitOptions(c, playerInput, newRadius) ==
    LET dx == playerInput.tx - c.x
        dy == playerInput.ty - c.y
        dist == dSqrt(dx * dx + dy * dy)
    IN  [hasColor |-> TRUE, color |-> c.color,
         hasX |-> TRUE,
         x |-> c.x + (IF dist > 0 THEN FDiv(dx * newRadius * 2, dist) ELSE 0),
         hasY |-> TRUE,
         y |-> c.y + (IF dist > 0 THEN FDiv(dy * newRadius * 2, dist) ELSE newRadius * 2),
         radius |-> newRadius,
         hasV |-> TRUE,
         vx |-> IF dist > 0 THEN FDiv(dx * SPLIT_VELOCITY * FP, dist) ELSE 0,
         vy |-> IF dist > 0 THEN FDiv(dy * SPLIT_VELOCITY * FP, dist)
                ELSE SPLIT_VELOCITY * FP]

\* variant: only the merge timing is recorded
SplitCell_MergeTimingOnly(W, clientId, playerInput, id) ==
    LET c == W.ents[id]
        newRadius == HalvedRadius(c.radius)
        shrunk == [W EXCEPT !.ents[id].radius = newRadius]
        clientIdStr == getClientIdString(W, clientId)
        spawned == spawnCell(shrunk, clientIdStr, SplitOptions(c, playerInput, newRadius))
        newId == Len(spawned.ents)
        mergeFrame == W.frame + MERGE_DELAY_FRAMES
    IN  IF clientIdStr = "" THEN shrunk
        ELSE [spawned EXCEPT
                !.mergeFrame = MapSet(MapSet(@, id, mergeFrame), newId, mergeFrame)]

\* the body of the loop over cellsToSplit for one cell, systems.ts:235-267
SplitCell(W, clientId, playerInput, id) ==
    LET c == W.ents[id]
        newRadius == HalvedRadius(c.radius)
        shrunk == [W EXCEPT !.ents[id].radius = newRadius]
        clientIdStr == getClientIdString(W, clientId)
        spawned == spawnCell(shrunk, clientIdStr, SplitOptions(c, playerInput, newRadius))
        newId == Len(spawned.ents)
        mergeFrame == W.frame + MERGE_DELAY_FRAMES
    IN  IF clientIdStr = "" THEN shrunk
        ELSE [spawned EXCEPT
                !.mergeFrame = MapSet(MapSet(@, id, mergeFrame), newId, mergeFrame),
                !.splitFrame = MapSet(MapSet(@, id, W.frame), newId, W.frame)]

\* variant: the last cells that fit instead of the first
cellsToSplit_Last(W, cells) ==
    LET eligible == SelectSeq(cells, LAMBDA id : W.ents[id].radius >= MIN_SPLIT_RADIUS * FP)
        room == MAX_CELLS_PER_PLAYER - Len(cells)
        n == Min(Len(eligible), room)
    IN  SubSeq(eligible, Len(eligible) - n + 1, Len(eligible))

\* variant: no truncation to the remaining capacity
cellsToSplit_Unsliced(W, cells) ==
    SelectSeq(cells, LAMBDA id : W.ents[id].radius >= MIN_SPLIT_RADIUS * FP)

\* variant: no eligibility filter
cellsToSplit_Unfiltered(W, cells) ==
    SubSeq(cells, 1, Min(Len(cells), MAX_CELLS_PER_PLAYER - Len(cells)))

\* cells.filter(radius >= MIN_SPLIT_RADIUS).slice(0, MAX_CELLS_PER_PLAYER - cells.length)
cellsToSplit(W, cells) ==
    LET eligible == SelectSeq(cells, LAMBDA id : W.ents[id].radius >= MIN_SPLIT_RADIUS * FP)
        room == MAX_CELLS_PER_PLAYER - Len(cells)
    IN  SubSeq(eligible, 1, Min(Len(eligible), room))

RECURSIVE SplitCells(_, _, _, _)
SplitCells(W, clientId, playerInput, cells) ==
    IF cells = <<>> THEN W
    ELSE SplitCells(SplitCell(W, clientId, playerInput, Head(cells)),
                    clientId, playerInput, Tail(cells))

\* variant: the split key alone is enough
SplitPlayer_SplitKeyOnly(W, player) ==
    LET playerInput == getInput(W, player.clientId)
    IN  IF ~playerInput.split THEN W
        ELSE IF Len(player.cells) >= MAX_CELLS_PER_PLAYER THEN W
        ELSE SplitCells(W, player.clientId, playerInput, cellsToSplit(W, player.cells))

\* the body of the loop over sortedPlayers, systems.ts:224-269
SplitPlayer(W, player) ==
    LET playerInput == getInput(W, player.clientId)
    IN  IF ~playerInput.split \/ ~playerInput.target THEN W
        ELSE IF Len(player.cells) >= MAX_CELLS_PER_PLAYER THEN W
        ELSE SplitCells(W, player.clientId, playerInput, cellsToSplit(W, player.cells))

RECURSIVE SplitPlayers(_, _)
SplitPlayers(W, players) ==
    IF players = <<>> THEN W
    ELSE SplitPlayers(SplitPlayer(W, Head(players)), Tail(players))

SplitSystem(W) == SplitPlayers(W, sortedPlayers(W))

(***************************************************************************)
(* Merge system.                                                           *)
(***************************************************************************)
\* variant: identifier ascending only
MergeOrder_ById(W, a, b) == a - b

\* the comparator of cells.sort: radius descending, then id ascending
MergeOrder(W, a, b) ==
    LET radiusDiff == W.ents[b].radius - W.ents[a].radius
    IN  IF radiusDiff # 0 THEN radiusDiff ELSE a - b

\* variant: no destroyed checks on the pair
MergesPair_IgnoringDestroyed(W, a, b) ==
    LET A == W.ents[a]
        B == W.ents[b]
        dx == A.x - B.x
        dy == A.y - B.y
        dist == dSqrt(dx * dx + dy * dy)
    IN  /\ ~(W.frame < MapGet(W.mergeFrame, a) \/ W.frame < MapGet(W.mergeFrame, b))
        /\ 2 * dist < A.radius + B.radius

\* variant: no cooldown check
MergesPair_NoCooldown(W, a, b) ==
    LET A == W.ents[a]
        B == W.ents[b]
        dx == A.x - B.x
        dy == A.y - B.y
        dist == dSqrt(dx * dx + dy * dy)
    IN  /\ ~A.destroyed
        /\ ~B.destroyed
        /\ 2 * dist < A.radius + B.radius

\* whether the inner loop merges the pair (a, b) in world W, systems.ts:307-321
MergesPair(W, a, b) ==
    LET A == W.ents[a]
        B == W.ents[b]
        dx == A.x - B.x
        dy == A.y - B.y
        dist == dSqrt(dx * dx + dy * dy)
    IN  /\ ~A.destroyed
        /\ ~B.destroyed
        /\ ~(W.frame < MapGet(W.mergeFrame, a) \/ W.frame < MapGet(W.mergeFrame, b))
        /\ 2 * dist < A.radius + B.radius

\* variant: the radii are added
MergedRadius_Sum(ra, rb) == Min(ra + rb, MaxR)

MergedRadius(ra, rb) == Min(dSqrt(ra * ra + rb * rb), MaxR)

\* the merge of b into a, systems.ts:322-329
MergePair(W, a, b) ==
    [Destroy(W, b) EXCEPT
        !.ents[a].radius = MergedRadius(W.ents[a].radius, W.ents[b].radius),
        !.mergeFrame = MapDelete(@, b)]

\* the inner loop: cells[i] against cells[j], cells[j+1], ...
RECURSIVE MergeInto(_, _, _, _)
MergeInto(W, cells, i, j) ==
    IF j > Len(cells) THEN W
    ELSE IF MergesPair(W, cells[i], cells[j])
         THEN MergeInto(MergePair(W, cells[i], cells[j]), cells, i, j + 1)
         ELSE MergeInto(W, cells, i, j + 1)

\* the outer loop, from cells[i] on
RECURSIVE MergePairs(_, _, _)
MergePairs(W, cells, i) ==
    IF i > Len(cells) THEN W
    ELSE IF W.ents[cells[i]].destroyed THEN MergePairs(W, cells, i + 1)
    ELSE MergePairs(MergeInto(W, cells, i, i + 1), cells, i + 1)

MergePlayer(W, player) ==
    IF Len(player.cells) < 2 THEN W
    ELSE LET cells == ArraySort(player.cells, LAMBDA a, b : MergeOrder(W, a, b))
         IN  MergePairs(W, cells, 1)

RECURSIVE MergePlayers(_, _)
MergePlayers(W, players) ==
    IF players = <<>> THEN W
    ELSE MergePlayers(MergePlayer(W, Head(players)), Tail(players))

MergeSystem(W) == MergePlayers(W, sortedPlayers(W))

(***************************************************************************)
(* Collision callbacks (setupCollisions).                                  *)
(***************************************************************************)
\* variant: growth without the clamp
GrownByFood_Unclamped(r, foodRadius) == r + FDiv(foodRadius * FOOD_GROW_NUM, FOOD_GROW_DEN)

GrownByFood(r, foodRadius) == Min(r + FDiv(foodRadius * FOOD_GROW_NUM, FOOD_GROW_DEN), MaxR)

\* variant: no check of the food
OnCollisionCellFood_Unchecked(W, cell, food) ==
    [Destroy(W, food) EXCEPT
        !.ents[cell].radius = GrownByFood(@, W.ents[food].radius)]

OnCollisionCellFood(W, cell, food) ==
    IF W.ents[food].destroyed THEN W
    ELSE [Destroy(W, food) EXCEPT
            !.ents[cell].radius = GrownByFood(@, W.ents[food].radius)]

\* variant: any larger cell eats
Exceeds_NoRatio(eaterRadius, preyRadius) == eaterRadius > preyRadius

\* eaterSprite.radius > preySprite.radius * EAT_RATIO
Exceeds(eaterRadius, preyRadius) == eaterRadius * EAT_RATIO_DEN > preyRadius * EAT_RATIO_NUM

GrownByPrey(r, preyRadius) == Min(r + FDiv(preyRadius * PLAYER_GROW_NUM, PLAYER_GROW_DEN), MaxR)

\* variant: no same-owner check
OnCollisionCellCell_AnyOwner(W, cellA, cellB) ==
    IF Exceeds(W.ents[cellA].radius, W.ents[cellB].radius)
    THEN [Destroy(W, cellB) EXCEPT
            !.ents[cellA].radius = GrownByPrey(@, W.ents[cellB].radius),
            !.mergeFrame = MapDelete(@, cellB)]
    ELSE W

OnCollisionCellCell(W, cellA, cellB) ==
    IF W.ents[cellA].clientId = W.ents[cellB].clientId THEN W
    ELSE IF Exceeds(W.ents[cellA].radius, W.ents[cellB].radius)
         THEN [Destroy(W, cellB) EXCEPT
                 !.ents[cellA].radius = GrownByPrey(@, W.ents[cellB].radius),
                 !.mergeFrame = MapDelete(@, cellB)]
         ELSE W

(***************************************************************************)
(* Lifecycle handlers (game.connect of game.ts).                           *)
(***************************************************************************)
OnConnect(W, clientStr) == spawnCell(W, clientStr, NoOptions)

RECURSIVE DestroyCells(_, _)
DestroyCells(W, cells) ==
    IF cells = <<>> THEN W
    ELSE DestroyCells([Destroy(W, Head(cells)) EXCEPT !.mergeFrame = MapDelete(@, Head(cells))],
                      Tail(cells))

OnDisconnect(W, clientStr) ==
    LET internedId == InternedId(W, clientStr)
        interned == [W EXCEPT !.clients = InternClients(W, clientStr)]
    IN  DestroyCells(interned, SetToSeq(getPlayerCells(interned, internedId)))

(***************************************************************************)
(* The physics collaborator, at its interface: kinematic bodies advance by *)
(* their velocity once per frame, then every pair of overlapping live      *)
(* bodies of the registered type pairs is a contact.  Contacts are         *)
(* dispatched in ascending identifier order; whether a cell-cell contact   *)
(* is delivered as (low, high), (high, low) or both ways is the            *)
(* collaborator's choice, fixed for a run (contactOrder).                  *)
(***************************************************************************)
Integrate(W) ==
    [W EXCEPT !.ents = [id \in Ids(W) |->
        IF IsCell(W, id) /\ ~W.ents[id].destroyed
        THEN [W.ents[id] EXCEPT !.x = @ + W.ents[id].vx, !.y = @ + W.ents[id].vy]
        ELSE W.ents[id]]]

Overlap(W, a, b) ==
    LET dx == W.ents[a].x - W.ents[b].x
        dy == W.ents[a].y - W.ents[b].y
        minDist == W.ents[a].radius + W.ents[b].radius
    IN  dx * dx + dy * dy < minDist * minDist

ContactsOf(W, order) ==
    LET live(id) == ~W.ents[id].destroyed
        touching(p) ==
            /\ live(p[1]) /\ live(p[2])
            /\ IsCell(W, p[1])
            /\ \/ IsFood(W, p[2])
               \/ /\ IsCell(W, p[2])
                  /\ \/ order = "both"
                     \/ order = "lowFirst" /\ p[1] < p[2]
                     \/ order = "highFirst" /\ p[1] > p[2]
            /\ Overlap(W, p[1], p[2])
        pairs == PairsOf(Len(W.ents))
        \* every pair of bodies, ascending, each as (low, high) then (high, low)
        bothWays == [k \in 1..(2 * Len(pairs)) |->
                        IF k % 2 = 1 THEN pairs[(k + 1) \div 2]
                        ELSE <<pairs[k \div 2][2], pairs[k \div 2][1]>>]
    IN  SelectSeq(bothWays, touching)

PhysicsStep(W, order) ==
    LET moved == Integrate(W)
    IN  [moved EXCEPT !.pending = ContactsOf(moved, order)]

\* the callback registered for the head of the pending contacts
Dispatch(W) ==
    LET c == Head(W.pending)
        rest == [W EXCEPT !.pending = Tail(@)]
    IN  IF IsFood(W, c[2]) THEN OnCollisionCellFood(rest, c[1], c[2])
        ELSE OnCollisionCellCell(rest, c[1], c[2])

\* game.world.setInput(clientId, input)
SetInputOf(W, clientStr, input) ==
    [W EXCEPT !.inputs = MapSet(@, InternedId(W, clientStr), input)]

EndFrameOf(W) == [W EXCEPT !.frame = @ + 1]

(***************************************************************************)
(* Bounds of the model.                                                    *)
(***************************************************************************)
\* frames simulated after the initial state
MaxFrames == 2
\* external events (inputs, joins, leaves) delivered in a run
MaxEvents == 1

Replicas == {1, 2}
ContactOrders == {"lowFirst", "both"}
Seeds == {7, 12345}

\* the points (world units) an input target is drawn from
TargetPoints == {<<1000, 1000>>, <<1040, 1000>>, <<3000, 2000>>}

Inputs ==
    {[target |-> TRUE, tx |-> p[1] * FP, ty |-> p[2] * FP, split |-> sp] :
        p \in TargetPoints, sp \in BOOLEAN}
    \cup {[target |-> FALSE, tx |-> 0, ty |-> 0, split |-> TRUE]}

(***************************************************************************)
(* State.                                                                  *)
(***************************************************************************)
VARIABLES
    w,            \* w[i]: the simulation of process i (entity store, inputs,
                  \* intern table, frame, PRNG, cellMergeFrame, cellSplitFrame)
    phase,        \* the position in the frame: idle, food, split, merge,
                  \* physics, contacts
    contactOrder, \* the physics collaborator's delivery of cell-cell contacts
    connected,    \* the client strings that joined and did not leave
    events,       \* external events delivered so far
    last,         \* the last step: its name, arguments and w[1] before it
    mode,         \* live, or replay (after a rollback)
    snap,         \* the snapshot the rollback collaborator holds
    log,          \* external events since the snapshot, with their frames
    queue,        \* events still to be replayed
    ref,          \* the state of w[1] when the rollback was made
    h             \* the two simulations of the rollback harness (test-rollback.ts)

vars == <<w, phase, contactOrder, connected, events, last, mode, snap, log, queue, ref, h>>

W1 == w[1]

(***************************************************************************)
(* Initial states.  A run starts either from the freshly constructed game  *)
(* (no entities, frame 0) or from a game in progress: the worlds below are *)
(* positions a game reaches by joins, eating and splits.  Process 1        *)
(* interned the clients in join order; process 2 interned its own client   *)
(* first (the later joiner's), as getLocalClientId of game.ts does.        *)
(***************************************************************************)
EmptyWorld(tab, seed) ==
    [ents |-> <<>>, clients |-> tab, inputs |-> EmptyMap, frame |-> 0, rng |-> seed,
     mergeFrame |-> EmptyMap, splitFrame |-> EmptyMap, pending |-> <<>>, farFood |-> 0]

NumOf(tab, str) == CHOOSE i \in 1..Len(tab) : tab[i] = str

CellAt(tab, str, x, y, r, color) ==
    [type |-> "cell", destroyed |-> FALSE, x |-> x * FP, y |-> y * FP, radius |-> r * FP,
     vx |-> 0, vy |-> 0, clientId |-> NumOf(tab, str), color |-> color]

FoodAt(x, y, color) ==
    [type |-> "food", destroyed |-> FALSE, x |-> x * FP, y |-> y * FP,
     radius |-> FOOD_RADIUS * FP, vx |-> 0, vy |-> 0, clientId |-> 0, color |-> color]

\* two players about to touch, a pellet nearby
ArenaWorld(tab, seed) ==
    [EmptyWorld(tab, seed) EXCEPT
        !.frame = 700,
        !.ents = << CellAt(tab, "p1", 1000, 1000, 30, 1),
                    CellAt(tab, "p2", 1040, 1000, 20, 2),
                    FoodAt(1100, 1000, 3) >>]

\* the two players of the arena, each steering at the other with split pressed
DuelWorld(tab, seed) ==
    [ArenaWorld(tab, seed) EXCEPT
        !.inputs = (NumOf(tab, "p1") :> [target |-> TRUE, tx |-> 1040 * FP, ty |-> 1000 * FP,
                                         split |-> TRUE])
                   @@ (NumOf(tab, "p2") :> [target |-> TRUE, tx |-> 1000 * FP,
                                            ty |-> 1000 * FP, split |-> TRUE])]

\* p1 split at frame 100 and its two cells have drifted back together; p2 is
\* at MAX_RADIUS with a pellet inside its reach
SiblingsWorld(tab, seed) ==
    [EmptyWorld(tab, seed) EXCEPT
        !.frame = 100 + MERGE_DELAY_FRAMES,
        !.ents = << CellAt(tab, "p1", 1000, 1000, 40, 1),
                    CellAt(tab, "p1", 1030, 1000, 40, 1),
                    CellAt(tab, "p2", 3000, 2000, MAX_RADIUS, 2),
                    FoodAt(3150, 2000, 3) >>,
        !.mergeFrame = (1 :> 100 + MERGE_DELAY_FRAMES) @@ (2 :> 100 + MERGE_DELAY_FRAMES),
        !.splitFrame = (1 :> 100) @@ (2 :> 100)]

\* p2 joined first (cell 1), then p1 (cell 2); p1 split twice (cells 3, then 4
\* and 5, at frame 400) and p2 has eaten cell 3; cell 2 is within p2's reach,
\* cells 4 and 5 overlap
MeleeWorld(tab, seed) ==
    [EmptyWorld(tab, seed) EXCEPT
        !.frame = 700,
        !.ents = << CellAt(tab, "p2", 1000, 1000, 30, 2),
                    CellAt(tab, "p1", 1040, 1000, 16, 1),
                    [CellAt(tab, "p1", 1000, 1010, 16, 1) EXCEPT !.destroyed = TRUE],
                    CellAt(tab, "p1", 2000, 1000, 16, 1),
                    CellAt(tab, "p1", 2030, 1000, 16, 1) >>,
        !.mergeFrame = (2 :> 400 + MERGE_DELAY_FRAMES) @@ (4 :> 400 + MERGE_DELAY_FRAMES)
                       @@ (5 :> 400 + MERGE_DELAY_FRAMES),
        !.splitFrame = (2 :> 400) @@ (3 :> 400) @@ (4 :> 400) @@ (5 :> 400)]

\* the first frame of a room: p1 has joined the freshly constructed game and
\* its pointer rests on (3000, 2000)
OpeningWorld(tab, seed) ==
    SetInputOf(OnConnect(EmptyWorld(tab, seed), "p1"), "p1",
               [target |-> TRUE, tx |-> 3000 * FP, ty |-> 2000 * FP, split |-> FALSE])

Scenarios == {"fresh", "opening", "arena", "duel", "siblings", "melee"}

InternTable(sc, i) ==
    IF sc \in {"fresh", "opening"} THEN (IF i = 1 THEN <<>> ELSE <<"p2">>)
    ELSE IF sc = "melee" THEN (IF i = 1 THEN <<"p2", "p1">> ELSE <<"p1", "p2">>)
    ELSE (IF i = 1 THEN <<"p1", "p2">> ELSE <<"p2", "p1">>)

ScenarioWorld(sc, i, seed) ==
    CASE sc = "fresh" -> EmptyWorld(InternTable(sc, i), seed)
      [] sc = "opening" -> OpeningWorld(InternTable(sc, i), seed)
      [] sc = "arena" -> ArenaWorld(InternTable(sc, i), seed)
      [] sc = "duel" -> DuelWorld(InternTable(sc, i), seed)
      [] sc = "siblings" -> SiblingsWorld(InternTable(sc, i), seed)
      [] sc = "melee" -> MeleeWorld(InternTable(sc, i), seed)

NoSnap == [taken |-> FALSE,
           of |-> [i \in Replicas |-> [ents |-> <<>>, inputs |-> EmptyMap, frame |-> 0, rng |-> 0]],
           connected |-> {}]

NoLast == [op |-> "init", client |-> "", pre |-> EmptyWorld(<<>>, 0)]

\* the harness at rest
NoHarness == [on |-> FALSE]

Init ==
    \E sc \in Scenarios, seed \in Seeds, order \in ContactOrders :
        /\ h = NoHarness
        /\ w = [i \in Replicas |-> ScenarioWorld(sc, i, seed)]
        /\ phase = "idle"
        /\ contactOrder = order
        /\ connected = CASE sc = "fresh" -> {}
                          [] sc = "opening" -> {"p1"}
                          [] OTHER -> {"p1", "p2"}
        /\ events = 0
        /\ last = NoLast
        /\ mode = "live"
        /\ snap = NoSnap
        /\ log = <<>>
        /\ queue = <<>>
        /\ ref = EmptyWorld(<<>>, 0)

StartFrame == IF W1.frame >= 700 THEN 700 ELSE 0

(***************************************************************************)
(* Steps.  Every step acts on each process's simulation alike.             *)
(***************************************************************************)
Rollbackless == UNCHANGED <<mode, snap, log, queue, ref, h>>

\* one system of the frame, or one callback
FrameStep(from, to, name, f(_)) ==
    /\ phase = from
    /\ w' = [i \in Replicas |-> f(w[i])]
    /\ phase' = to
    /\ last' = [op |-> name, client |-> "", pre |-> W1]
    /\ UNCHANGED <<contactOrder, connected, events>>
    /\ Rollbackless

\* no event recorded for the current frame is still to be replayed
ReplayAllows ==
    IF mode = "live" THEN TRUE
    ELSE /\ W1.frame < ref.frame
         /\ IF queue = <<>> THEN TRUE ELSE Head(queue).frame > W1.frame

Movement ==
    /\ W1.frame < StartFrame + MaxFrames
    /\ ReplayAllows
    /\ FrameStep("idle", "food", "Movement", MovementSystem)

FoodSpawn == FrameStep("food", "split", "FoodSpawn", FoodSpawnSystem)

Split == FrameStep("split", "merge", "Split", SplitSystem)

Merge == FrameStep("merge", "physics", "Merge", MergeSystem)

Physics == FrameStep("physics", "contacts", "Physics", LAMBDA W : PhysicsStep(W, contactOrder))

Collide ==
    /\ W1.pending # <<>>
    /\ FrameStep("contacts", "contacts", "Collide", Dispatch)

EndFrame ==
    /\ W1.pending = <<>>
    /\ FrameStep("contacts", "idle", "EndFrame", EndFrameOf)

\* an external event, delivered between frames
External(ev, f(_)) ==
    /\ phase = "idle"
    /\ \/ /\ mode = "live"
          /\ events < MaxEvents
          /\ events' = events + 1
          /\ log' = IF snap.taken THEN Append(log, ev) ELSE log
          /\ UNCHANGED queue
       \/ /\ mode = "replay"
          /\ queue # <<>>
          /\ Head(queue) = ev
          /\ queue' = Tail(queue)
          /\ UNCHANGED <<events, log>>
    /\ w' = [i \in Replicas |-> f(w[i])]
    /\ last' = [op |-> ev.op, client |-> ev.client, pre |-> W1]
    /\ UNCHANGED <<phase, contactOrder, mode, snap, ref, h>>

Event(op, c, input) == [op |-> op, client |-> c, input |-> input, frame |-> W1.frame]

SetInput(c, input) ==
    /\ c \in connected
    /\ External(Event("SetInput", c, input), LAMBDA W : SetInputOf(W, c, input))
    /\ UNCHANGED connected

Connect(c) ==
    /\ c \notin connected
    /\ External(Event("Connect", c, NoInput), LAMBDA W : OnConnect(W, c))
    /\ connected' = connected \cup {c}

Disconnect(c) ==
    /\ c \in connected
    /\ External(Event("Disconnect", c, NoInput), LAMBDA W : OnDisconnect(W, c))
    /\ connected' = connected \ {c}

Next ==
    \/ Movement
    \/ FoodSpawn
    \/ Split
    \/ Merge
    \/ Physics
    \/ Collide
    \/ EndFrame
    \/ \E c \in ClientStrs, input \in Inputs : SetInput(c, input)
    \/ \E c \in ClientStrs : Connect(c)
    \/ \E c \in ClientStrs : Disconnect(c)

Spec == Init /\ [][Next]_vars

(***************************************************************************)
(* Rollback, as the rollback collaborator realizes it (specification,      *)
(* section 5): it saves the entity component values, the PRNG state and    *)
(* the frame counter (with the inputs in force), later restores them and   *)
(* replays the frame steps with the same inputs at the same frames.  The   *)
(* Maps cellMergeFrame and cellSplitFrame are module state of systems.ts,  *)
(* outside the entity store: a restore leaves them as they are.            *)
(***************************************************************************)
SnapshotOf(W) ==
    [ents |-> W.ents, inputs |-> W.inputs, frame |-> W.frame, rng |-> W.rng]

RestoreFrom(W, s) ==
    [W EXCEPT !.ents = s.ents, !.inputs = s.inputs, !.frame = s.frame, !.rng = s.rng,
              !.pending = <<>>]

TakeSnapshot ==
    /\ phase = "idle"
    /\ mode = "live"
    /\ ~snap.taken
    /\ snap' = [taken |-> TRUE, of |-> [i \in Replicas |-> SnapshotOf(w[i])],
                connected |-> connected]
    /\ last' = [op |-> "TakeSnapshot", client |-> "", pre |-> W1]
    /\ UNCHANGED <<w, phase, contactOrder, connected, events, mode, log, queue, ref, h>>

Rollback ==
    /\ phase = "idle"
    /\ mode = "live"
    /\ snap.taken
    /\ W1.frame > snap.of[1].frame
    /\ ref' = W1
    /\ w' = [i \in Replicas |-> RestoreFrom(w[i], snap.of[i])]
    /\ connected' = snap.connected
    /\ mode' = "replay"
    /\ queue' = log
    /\ last' = [op |-> "Rollback", client |-> "", pre |-> W1]
    /\ UNCHANGED <<phase, contactOrder, events, snap, log, h>>

NextRollback == Next \/ TakeSnapshot \/ Rollback

\* rollback is explored from the empty game and from the arena
InitRollback ==
    /\ Init
    /\ W1 \in {ScenarioWorld("fresh", 1, 7), ScenarioWorld("arena", 1, 7)}
    /\ contactOrder = "both"

SpecRollback == InitRollback /\ [][NextRollback]_vars

\* the replay has reached the frame at which the rollback was made
ReplayDone == mode = "replay" /\ queue = <<>> /\ phase = "idle" /\ W1.frame = ref.frame

(***************************************************************************)
(* The serialized entity state: existence, position, radius, velocity and  *)
(* owner (as the client string) of every entity.                           *)
(***************************************************************************)
Serialize(W) ==
    [id \in Ids(W) |->
        [type |-> W.ents[id].type, destroyed |-> W.ents[id].destroyed,
         x |-> W.ents[id].x, y |-> W.ents[id].y, radius |-> W.ents[id].radius,
         vx |-> W.ents[id].vx, vy |-> W.ents[id].vy,
         owner |-> getClientIdString(W, W.ents[id].clientId),
         color |-> W.ents[id].color]]

(***************************************************************************)
(* A crowded owner: p1 alone in the game with CrowdCount cells in a row,   *)
(* 100 units apart, all made by splits at frame 400; the cells 2, 5 and 9  *)
(* have radius 20, the others radius 12 (below MIN_SPLIT_RADIUS).  p1      *)
(* holds the split key with a target; a pellet touches cell 1.             *)
(***************************************************************************)
CrowdCounts == {MAX_CELLS_PER_PLAYER - 2, MAX_CELLS_PER_PLAYER - 1}

CrowdWorld(tab, seed, n) ==
    [EmptyWorld(tab, seed) EXCEPT
        !.frame = 700,
        !.ents = Append(SubSeq([i \in 1..n |->
                                   CellAt(tab, "p1", 1000 + 100 * i, 1000,
                                          IF i \in {2, 5, 9} THEN 20 ELSE 12, 1)], 1, n),
                        FoodAt(1085, 1000, 3)),
        !.inputs = (NumOf(tab, "p1") :> [target |-> TRUE, tx |-> 3000 * FP, ty |-> 2000 * FP,
                                         split |-> TRUE]),
        !.mergeFrame = [i \in 1..n |-> 400 + MERGE_DELAY_FRAMES],
        !.splitFrame = [i \in 1..n |-> 400]]

InitCrowd ==
    \E n \in CrowdCounts, order \in ContactOrders :
        /\ h = NoHarness
        /\ w = [i \in Replicas |-> CrowdWorld(InternTable("crowd", i), 7, n)]
        /\ phase = "idle"
        /\ contactOrder = order
        /\ connected = {"p1"}
        /\ events = 0
        /\ last = NoLast
        /\ mode = "live"
        /\ snap = NoSnap
        /\ log = <<>>
        /\ queue = <<>>
        /\ ref = EmptyWorld(<<>>, 0)

SpecCrowd == InitCrowd /\ [][Next]_vars

(***************************************************************************)
(* A scrum: p1's cell 1 (radius 16) at (1000, 1000) between p2's cells 2   *)
(* and 3 (radius 30) at (1040, 1000) and (960, 1000), each 40 away and     *)
(* large enough to eat it; pellet 4 at (1000, 1020) touches cell 1 only,   *)
(* pellet 5 at (1015, 1015) touches cells 1 and 2.  p2's cells were made   *)
(* by a split at frame 90.  No input is set at the start.  In the second   *)
(* start p1 has left the game: its cell is destroyed.                      *)
(***************************************************************************)
ScrumWorld(tab, seed, present) ==
    [EmptyWorld(tab, seed) EXCEPT
        !.frame = 700,
        !.ents = << [CellAt(tab, "p1", 1000, 1000, 16, 1) EXCEPT !.destroyed = ~present],
                    CellAt(tab, "p2", 1040, 1000, 30, 2),
                    CellAt(tab, "p2", 960, 1000, 30, 2),
                    FoodAt(1000, 1020, 3),
                    FoodAt(1015, 1015, 4) >>,
        !.mergeFrame = (2 :> 90 + MERGE_DELAY_FRAMES) @@ (3 :> 90 + MERGE_DELAY_FRAMES),
        !.splitFrame = (2 :> 90) @@ (3 :> 90)]

InitScrum ==
    \E seed \in Seeds, order \in ContactOrders, present \in BOOLEAN :
        /\ h = NoHarness
        /\ w = [i \in Replicas |-> ScrumWorld(InternTable("scrum", i), seed, present)]
        /\ phase = "idle"
        /\ contactOrder = order
        /\ connected = IF present THEN {"p1", "p2"} ELSE {"p2"}
        /\ events = 0
        /\ last = NoLast
        /\ mode = "live"
        /\ snap = NoSnap
        /\ log = <<>>
        /\ queue = <<>>
        /\ ref = EmptyWorld(<<>>, 0)

SpecScrum == InitScrum /\ [][Next]_vars

(***************************************************************************)
(* A cluster of siblings past their merge delay: p1 alone in the game with *)
(* five cells made by splits at frame 90 (and grown since by eating).      *)
(*   cell 1, radius 20 or 40, at (982, 1000)                               *)
(*   cell 2, radius 40, at (1010, 1000): 28 from cell 1                    *)
(*   cell 3, radius 30, at (1050, 1000): 40 from cell 2, 9 from cell 4     *)
(*   cell 4, radius 20, at (1041, 1000): 31 from cell 2                    *)
(*   cell 5, radius 12, at (982, 1015): 15 from cell 1, 31.8 from cell 2   *)
(* No input is set at the start.                                           *)
(***************************************************************************)
ClusterRadii == {20, 40}

ClusterWorld(tab, seed, r1) ==
    [EmptyWorld(tab, seed) EXCEPT
        !.frame = 700,
        !.ents = << CellAt(tab, "p1", 982, 1000, r1, 1),
                    CellAt(tab, "p1", 1010, 1000, 40, 1),
                    CellAt(tab, "p1", 1050, 1000, 30, 1),
                    CellAt(tab, "p1", 1041, 1000, 20, 1),
                    CellAt(tab, "p1", 982, 1015, 12, 1) >>,
        !.mergeFrame = [i \in 1..5 |-> 90 + MERGE_DELAY_FRAMES],
        !.splitFrame = [i \in 1..5 |-> 90]]

InitCluster ==
    \E r1 \in ClusterRadii, seed \in Seeds, order \in ContactOrders :
        /\ h = NoHarness
        /\ w = [i \in Replicas |-> ClusterWorld(InternTable("cluster", i), seed, r1)]
        /\ phase = "idle"
        /\ contactOrder = order
        /\ connected = {"p1"}
        /\ events = 0
        /\ last = NoLast
        /\ mode = "live"
        /\ snap = NoSnap
        /\ log = <<>>
        /\ queue = <<>>
        /\ ref = EmptyWorld(<<>>, 0)

SpecCluster == InitCluster /\ [][Next]_vars

(***************************************************************************)
(* Overlapping siblings left alone: p1 owns cells 1 and 2 of radius 40,    *)
(* cell 2 displaced from cell 1 by an offset shorter than the sum of the   *)
(* radii; the split that made them is either 10 frames old (inside the     *)
(* merge cooldown, past the control lockout) or MERGE_DELAY_FRAMES old.    *)
(* No input is set and no client joins or leaves; the engine keeps         *)
(* stepping frames.                                                        *)
(***************************************************************************)
\* frames simulated from an overlapping start
MaxSepFrames == 6

\* the displacement of cell 2 from cell 1, in model units (1/FP world units)
SepOffsets == {<<0, 0>>, <<4, 0>>, <<8, 0>>, <<120, 0>>, <<90, 90>>, <<316, 0>>}

SeparationWorld(tab, off, splitAt) ==
    [EmptyWorld(tab, 7) EXCEPT
        !.frame = 700,
        !.ents = << CellAt(tab, "p1", 1000, 1000, 40, 1),
                    [CellAt(tab, "p1", 1000, 1000, 40, 1) EXCEPT
                        !.x = @ + off[1], !.y = @ + off[2]],
                    FoodAt(955, 1000, 3) >>,
        !.mergeFrame = (1 :> splitAt + MERGE_DELAY_FRAMES) @@ (2 :> splitAt + MERGE_DELAY_FRAMES),
        !.splitFrame = (1 :> splitAt) @@ (2 :> splitAt)]

InitSeparation ==
    \E off \in SepOffsets, splitAt \in {100, 690} :
        /\ h = NoHarness
        /\ w = [i \in Replicas |-> SeparationWorld(InternTable("siblings", i), off, splitAt)]
        /\ phase = "idle"
        /\ contactOrder = "both"
        /\ connected = {"p1"}
        /\ events = 0
        /\ last = NoLast
        /\ mode = "live"
        /\ snap = NoSnap
        /\ log = <<>>
        /\ queue = <<>>
        /\ ref = EmptyWorld(<<>>, 0)

MovementSeparation ==
    /\ W1.frame < 700 + MaxSepFrames
    /\ FrameStep("idle", "food", "Movement", MovementSystem)

NextSeparation ==
    \/ MovementSeparation
    \/ FoodSpawn
    \/ Split
    \/ Merge
    \/ Physics
    \/ Collide
    \/ EndFrame

\* a step of the frame is due: ENABLED <<NextSeparation>>_vars as a state
\* predicate (every phase but idle has a step, and idle has one until the last
\* frame; every step changes phase or pending)
StepDue == ~(phase = "idle" /\ W1.frame >= 700 + MaxSepFrames)

\* weak fairness of the frame step, WF_vars(NextSeparation), with its
\* enabling condition written as StepDue
StepFairness == (<>[]StepDue) => []<><<NextSeparation>>_vars

\* the engine steps a frame whenever one is due
SpecSeparation ==
    InitSeparation /\ [][NextSeparation]_vars /\ WF_vars(EndFrame) /\ StepFairness

\* the squared center distance of cells 1 and 2, and their radii sum squared
SiblingDistSq ==
    (W1.ents[1].x - W1.ents[2].x) * (W1.ents[1].x - W1.ents[2].x)
        + (W1.ents[1].y - W1.ents[2].y) * (W1.ents[1].y - W1.ents[2].y)
SiblingMinDistSq ==
    (W1.ents[1].radius + W1.ents[2].radius) * (W1.ents[1].radius + W1.ents[2].radius)

(***************************************************************************)
(* A full arena: the pellets of the room, all but one out of every cell's  *)
(* reach, number MAX_FOOD - 1 or MAX_FOOD; p1's cell touches the one       *)
(* pellet that is near.                                                    *)
(***************************************************************************)
FullFarFood == {MAX_FOOD - 2, MAX_FOOD - 1}

FullWorld(tab, seed, far) ==
    [EmptyWorld(tab, seed) EXCEPT
        !.frame = 700,
        !.ents = << CellAt(tab, "p1", 1000, 1000, 20, 1), FoodAt(1010, 1000, 3) >>,
        !.farFood = far]

InitFull ==
    \E far \in FullFarFood, seed \in Seeds, order \in ContactOrders :
        /\ h = NoHarness
        /\ w = [i \in Replicas |-> FullWorld(InternTable("full", i), seed, far)]
        /\ phase = "idle"
        /\ contactOrder = order
        /\ connected = {"p1"}
        /\ events = 0
        /\ last = NoLast
        /\ mode = "live"
        /\ snap = NoSnap
        /\ log = <<>>
        /\ queue = <<>>
        /\ ref = EmptyWorld(<<>>, 0)

SpecFull == InitFull /\ [][Next]_vars

(***************************************************************************)
(* A chase: p1 alone in the game with one cell of radius 20 and a pointer  *)
(* that stays where it is (no split key).  The cell starts mid-arena with  *)
(* the pointer on it, 40 units or 200 units (one frame's way at SPEED) to  *)
(* its right, or it starts against the walls of the corner                 *)
(* (0, WORLD_HEIGHT) with the pointer on that corner.  No client joins or  *)
(* leaves and no input changes; the engine keeps stepping frames.          *)
(***************************************************************************)
\* <<start, target>>
ChaseCases == {<< <<1000, 1000>>, <<1000, 1000>> >>,
               << <<1000, 1000>>, <<1040, 1000>> >>,
               << <<1000, 1000>>, <<1000 + SPEED, 1000>> >>,
               << <<20, WORLD_HEIGHT - 20>>, <<0, WORLD_HEIGHT>> >>}

ChaseWorld(tab, seed, start, target) ==
    [EmptyWorld(tab, seed) EXCEPT
        !.frame = 700,
        !.ents = << CellAt(tab, "p1", start[1], start[2], 20, 1),
                    FoodAt(start[1] + 20, start[2] - 10, 3) >>,
        !.inputs = (NumOf(tab, "p1") :> [target |-> TRUE, tx |-> target[1] * FP,
                                         ty |-> target[2] * FP, split |-> FALSE])]

InitChase ==
    \E seed \in Seeds, case \in ChaseCases :
        /\ h = NoHarness
        /\ w = [i \in Replicas |->
                    ChaseWorld(InternTable("chase", i), seed, case[1], case[2])]
        /\ phase = "idle"
        /\ contactOrder = "both"
        /\ connected = {"p1"}
        /\ events = 0
        /\ last = NoLast
        /\ mode = "live"
        /\ snap = NoSnap
        /\ log = <<>>
        /\ queue = <<>>
        /\ ref = EmptyWorld(<<>>, 0)

\* the engine steps a frame whenever one is due
SpecChase ==
    InitChase /\ [][NextSeparation]_vars /\ WF_vars(EndFrame) /\ StepFairness

(***************************************************************************)
(* A client whose id is the empty string: it has joined (onConnect interns *)
(* the id and spawns its cell), its cell has grown to radius 28 and        *)
(* its input holds a target with the split key.  game.getClientIdString    *)
(* returns "" for its interned number, which the split system reads as     *)
(* "not resolved".  p2 plays next to it; p1 has not joined.                *)
(***************************************************************************)
AnonTable(i) == IF i = 1 THEN <<"", "p2">> ELSE <<"p2", "">>

AnonWorld(tab, seed) ==
    [EmptyWorld(tab, seed) EXCEPT
        !.frame = 700,
        !.ents = << CellAt(tab, "", 1000, 1000, 28, 1),
                    CellAt(tab, "p2", 1200, 1000, 28, 2),
                    FoodAt(1028, 1000, 3) >>,
        !.inputs = (NumOf(tab, "") :> [target |-> TRUE, tx |-> 3000 * FP, ty |-> 2000 * FP,
                                       split |-> TRUE])]

InitAnon ==
    \E seed \in Seeds, order \in ContactOrders :
        /\ h = NoHarness
        /\ w = [i \in Replicas |-> AnonWorld(AnonTable(i), seed)]
        /\ phase = "idle"
        /\ contactOrder = order
        /\ connected = {"", "p2"}
        /\ events = 0
        /\ last = NoLast
        /\ mode = "live"
        /\ snap = NoSnap
        /\ log = <<>>
        /\ queue = <<>>
        /\ ref = EmptyWorld(<<>>, 0)

SpecAnon == InitAnon /\ [][Next]_vars

(***************************************************************************)
(* A split and the frames after it: p1 alone in the game with one cell at  *)
(* (1000, 1000), a pellet touching it, and an input with a target and the  *)
(* split key held.  The cell splits in the first frame (its halves are     *)
(* below MIN_SPLIT_RADIUS, or split once more); the engine keeps stepping  *)
(* frames.  In the second start the cell is where the physics step left it *)
(* after a move into the corner (0, WORLD_HEIGHT): closer to both walls    *)
(* than its radius.                                                        *)
(***************************************************************************)
LockoutRadii == {20, 28}
LockoutStarts == {<<1000, 1000>>, <<15, WORLD_HEIGHT - 10>>}
\* the pointer may rest on the corner of the world
LockoutTargets == TargetPoints \cup {<<0, WORLD_HEIGHT>>}

LockoutWorld(tab, seed, r, start, target) ==
    [EmptyWorld(tab, seed) EXCEPT
        !.frame = 700,
        !.ents = << CellAt(tab, "p1", start[1], start[2], r, 1),
                    FoodAt(start[1] + r, start[2], 3) >>,
        !.inputs = (NumOf(tab, "p1") :> [target |-> TRUE, tx |-> target[1] * FP,
                                         ty |-> target[2] * FP, split |-> TRUE])]

InitLockout ==
    \E r \in LockoutRadii, seed \in Seeds, start \in LockoutStarts,
       target \in LockoutTargets :
        /\ h = NoHarness
        /\ w = [i \in Replicas |->
                    LockoutWorld(InternTable("lockout", i), seed, r, start, target)]
        /\ phase = "idle"
        /\ contactOrder = "both"
        /\ connected = {"p1"}
        /\ events = 0
        /\ last = NoLast
        /\ mode = "live"
        /\ snap = NoSnap
        /\ log = <<>>
        /\ queue = <<>>
        /\ ref = EmptyWorld(<<>>, 0)

\* the engine steps a frame whenever one is due
SpecLockout ==
    InitLockout /\ [][NextSeparation]_vars /\ WF_vars(EndFrame) /\ StepFairness

(***************************************************************************)
(* Properties of the game.                                                 *)
(***************************************************************************)
\* the step just taken, seen on process 1
Pre == last.pre
Stepped(name) == last.op = name
OwnerOf(W, id) == getClientIdString(W, W.ents[id].clientId)
\* the cells the step destroyed, and the entities it created
DestroyedBy(name) ==
    IF Stepped(name)
    THEN {id \in Ids(Pre) : IsCell(Pre, id) /\ ~Pre.ents[id].destroyed /\ W1.ents[id].destroyed}
    ELSE {}
CreatedBy(name) == IF Stepped(name) THEN Ids(W1) \ Ids(Pre) ELSE {}
\* the cells a Split step shrank
SplitBy ==
    IF Stepped("Split")
    THEN {id \in LiveCells(Pre) : W1.ents[id].radius # Pre.ents[id].radius}
    ELSE {}
\* r is the integer part of the square root of s
IsRootOf(r, s) == r * r <= s /\ s < (r + 1) * (r + 1)

\* C1: two independently constructed simulations given the same seed and the
\* same ordered inputs, joins and leaves have identical entity state
\* (existence, position, radius, velocity, owner of every cell and food) after
\* every step of every frame, although they interned the clients in a
\* different order.
C1_Determinism ==
    /\ Serialize(w[1]) = Serialize(w[2])
    /\ w[1].frame = w[2].frame
    /\ w[1].rng = w[2].rng

\* two owners, numbered differently in the two simulations, split in one pass
C1_Witness ==
    /\ Stepped("Split")
    /\ \E a, b \in CreatedBy("Split") :
          /\ OwnerOf(W1, a) = "p1" /\ OwnerOf(W1, b) = "p2"
          /\ w[1].ents[a].clientId # w[2].ents[a].clientId

\* C4: after every completed frame neither cellMergeFrame nor cellSplitFrame
\* holds an entry keyed by the identifier of a destroyed cell.
C4_NoStaleRecords ==
    phase = "idle" =>
        \A id \in DOMAIN W1.mergeFrame \cup DOMAIN W1.splitFrame : ~W1.ents[id].destroyed

\* C5: a cell-cell contact destroys a cell only if the owners differ and the
\* other cell's radius is strictly greater than EAT_RATIO times its radius;
\* when neither radius exceeds EAT_RATIO times the other, neither cell is
\* destroyed and neither radius changes.
C5_EatRatioLaw ==
    (Stepped("Collide") /\ IsCell(Pre, Head(Pre.pending)[2])) =>
        LET a == Head(Pre.pending)[1]
            b == Head(Pre.pending)[2]
            ra == Pre.ents[a].radius
            rb == Pre.ents[b].radius
            destroys(x) == ~Pre.ents[x].destroyed /\ W1.ents[x].destroyed
        IN  /\ destroys(b) =>
                /\ OwnerOf(Pre, a) # OwnerOf(Pre, b)
                /\ ra * EAT_RATIO_DEN > rb * EAT_RATIO_NUM
            /\ destroys(a) =>
                /\ OwnerOf(Pre, a) # OwnerOf(Pre, b)
                /\ rb * EAT_RATIO_DEN > ra * EAT_RATIO_NUM
            /\ (/\ ra * EAT_RATIO_DEN <= rb * EAT_RATIO_NUM
                /\ rb * EAT_RATIO_DEN <= ra * EAT_RATIO_NUM) =>
                   W1.ents = Pre.ents

\* a contact between cells of two owners in which the larger ate the smaller
C5_Witness ==
    /\ Stepped("Collide")
    /\ IsCell(Pre, Head(Pre.pending)[2])
    /\ OwnerOf(Pre, Head(Pre.pending)[1]) # OwnerOf(Pre, Head(Pre.pending)[2])
    /\ Head(Pre.pending)[2] \in DestroyedBy("Collide")

\* C6: every split of a cell of radius r leaves the original and exactly one
\* new cell, each of radius r/sqrt(2) (rounded down to the fixed-point unit),
\* so the squared radii of the two sum to r squared within rounding.
C6_SplitConservation ==
    Stepped("Split") =>
        /\ Cardinality(CreatedBy("Split")) = Cardinality(SplitBy)
        /\ \A n \in CreatedBy("Split") : IsCell(W1, n) /\ ~W1.ents[n].destroyed
        /\ \A id \in SplitBy :
              LET r == Pre.ents[id].radius
                  half == W1.ents[id].radius
              IN  /\ ~W1.ents[id].destroyed
                  /\ IsRootOf(half, (r * r) \div 2)
                  /\ Cardinality({n \in CreatedBy("Split") :
                                     /\ W1.ents[n].radius = half
                                     /\ W1.ents[n].clientId = W1.ents[id].clientId})
                        >= Cardinality({o \in SplitBy :
                                           /\ W1.ents[o].radius = half
                                           /\ W1.ents[o].clientId = W1.ents[id].clientId})

\* a split pass that split a cell
C6_Witness == Stepped("Split") /\ SplitBy # {} /\ CreatedBy("Split") # {}

\* C7: when the merge pass merges a pair of sibling cells of radii r1 and r2
\* (both past their merge-eligibility frame, centers closer than
\* (r1+r2)*0.5), one of them survives with radius
\* min(sqrt(r1^2 + r2^2), MAX_RADIUS) and the other is destroyed with its
\* merge-eligibility entry removed.
C7_MergeConservation ==
    \A b \in DestroyedBy("Merge") :
        (\A o \in DestroyedBy("Merge") : OwnerOf(Pre, o) = OwnerOf(Pre, b) => o = b) =>
            /\ b \notin DOMAIN W1.mergeFrame
            /\ \E a \in LiveCells(W1) :
                  LET r1 == Pre.ents[a].radius
                      r2 == Pre.ents[b].radius
                      dx == Pre.ents[a].x - Pre.ents[b].x
                      dy == Pre.ents[a].y - Pre.ents[b].y
                  IN  /\ a # b
                      /\ OwnerOf(Pre, a) = OwnerOf(Pre, b)
                      /\ ~Pre.ents[a].destroyed
                      /\ Pre.frame >= MapGet(Pre.mergeFrame, a)
                      /\ Pre.frame >= MapGet(Pre.mergeFrame, b)
                      /\ 4 * (dx * dx + dy * dy) < (r1 + r2 + 2) * (r1 + r2 + 2)
                      /\ \/ IsRootOf(W1.ents[a].radius, r1 * r1 + r2 * r2)
                         \/ /\ W1.ents[a].radius = MaxR
                            /\ r1 * r1 + r2 * r2 >= MaxR * MaxR

\* a merge pass that merged two siblings
C7_Witness == DestroyedBy("Merge") # {}

\* C8: in every reachable state every live cell's radius is in
\* [0, MAX_RADIUS].
C8_RadiusRange ==
    \A id \in LiveCells(W1) : 0 <= W1.ents[id].radius /\ W1.ents[id].radius <= MaxR

\* a cell at MAX_RADIUS has just eaten a pellet
C8_Witness ==
    /\ Stepped("Collide")
    /\ IsFood(Pre, Head(Pre.pending)[2])
    /\ ~Pre.ents[Head(Pre.pending)[2]].destroyed
    /\ W1.ents[Head(Pre.pending)[2]].destroyed
    /\ Pre.ents[Head(Pre.pending)[1]].radius = MaxR

\* C9 (as stated): in every reachable state every live cell's radius is at
\* least MIN_SPLIT_RADIUS and at most MAX_RADIUS, the two cells that result
\* from a split included.
C9_RadiusAtLeastMinSplit ==
    \A id \in LiveCells(W1) :
        MIN_SPLIT_RADIUS * FP <= W1.ents[id].radius /\ W1.ents[id].radius <= MaxR

\* C9 (amended): in every reachable state every live cell's radius is at
\* least MIN_SPLIT_RADIUS/sqrt(2) (rounded down to the fixed-point unit) and
\* at most MAX_RADIUS: only cells of radius >= MIN_SPLIT_RADIUS are split.
C9_RadiusAtLeastHalvedMinSplit ==
    \A id \in LiveCells(W1) :
        /\ 2 * (W1.ents[id].radius + 1) * (W1.ents[id].radius + 1)
              > (MIN_SPLIT_RADIUS * FP) * (MIN_SPLIT_RADIUS * FP)
        /\ W1.ents[id].radius <= MaxR

\* a split left cells smaller than MIN_SPLIT_RADIUS
C9_Witness ==
    /\ Stepped("Split")
    /\ \E id \in SplitBy : W1.ents[id].radius < MIN_SPLIT_RADIUS * FP

\* C10: no frame pass, collision callback or lifecycle handler changes the
\* owner of an existing cell, and the cell a split creates has the owner of
\* the cell that was split.
C10_OwnerNeverChanges ==
    /\ \A id \in Ids(Pre) :
          IsCell(Pre, id) =>
              /\ W1.ents[id].clientId = Pre.ents[id].clientId
              /\ OwnerOf(W1, id) = OwnerOf(Pre, id)
    /\ \A n \in CreatedBy("Split") :
          \E id \in SplitBy :
              /\ OwnerOf(W1, n) = OwnerOf(Pre, id)
              /\ W1.ents[n].radius = W1.ents[id].radius
              /\ W1.ents[n].color = Pre.ents[id].color

\* the second player's cell was split
C10_Witness ==
    /\ Stepped("Split")
    /\ \E n \in CreatedBy("Split") : OwnerOf(W1, n) = "p2"

\* the live cells client string c owned before the step just taken
FormerCells(c) == {id \in LiveCells(Pre) : OwnerOf(Pre, id) = c}

\* C11: after the leave handler has run for client c, no live cell owned by c
\* remains, neither cellMergeFrame nor cellSplitFrame holds an entry keyed by
\* one of c's former cells, and the cells and record entries of every other
\* client are as they were.
C11_LeaveHandler ==
    Stepped("Disconnect") =>
        /\ \A id \in LiveCells(W1) : OwnerOf(W1, id) # last.client
        /\ \A id \in FormerCells(last.client) :
              id \notin DOMAIN W1.mergeFrame /\ id \notin DOMAIN W1.splitFrame
        /\ \A id \in Ids(Pre) \ FormerCells(last.client) :
              /\ W1.ents[id] = Pre.ents[id]
              /\ (id \in DOMAIN W1.mergeFrame) = (id \in DOMAIN Pre.mergeFrame)
              /\ (id \in DOMAIN W1.splitFrame) = (id \in DOMAIN Pre.splitFrame)
              /\ MapGet(W1.mergeFrame, id) = MapGet(Pre.mergeFrame, id)
              /\ MapGet(W1.splitFrame, id) = MapGet(Pre.splitFrame, id)

\* the sum of the repulsion entries of cells[k], cells[k+1], ...
RECURSIVE SumOver(_, _, _)
SumOver(rep, cells, k) ==
    IF k > Len(cells) THEN [vx |-> 0, vy |-> 0]
    ELSE LET rest == SumOver(rep, cells, k + 1)
         IN  [vx |-> rep[cells[k]].vx + rest.vx, vy |-> rep[cells[k]].vy + rest.vy]

\* C12: in every Movement pass, for every owner, the repulsion vectors
\* accumulated over that owner's cells sum to the zero vector; an owner whose
\* cells are all under control and who steers nowhere leaves the pass with
\* velocities that sum to zero.
C12_RepulsionSymmetry ==
    Stepped("Movement") =>
        LET players == sortedPlayers(Pre)
            rep == Repulsion(Pre)
        IN  \A k \in 1..Len(players) :
                /\ SumOver(rep, players[k].cells, 1) = [vx |-> 0, vy |-> 0]
                /\ (/\ ~getInput(Pre, players[k].clientId).target
                    /\ \A i \in 1..Len(players[k].cells) :
                          ControlRegained(Pre, players[k].cells[i])) =>
                       SumOver(W1.ents, players[k].cells, 1) = [vx |-> 0, vy |-> 0]

\* a Movement pass that pushed two overlapping siblings apart
C12_Witness ==
    /\ Stepped("Movement")
    /\ \E a, b \in LiveCells(Pre) :
          /\ a < b
          /\ OwnerOf(Pre, a) = OwnerOf(Pre, b)
          /\ Repulsion(Pre)[a] # [vx |-> 0, vy |-> 0]
          /\ W1.ents[a].vx = Repulsion(Pre)[a].vx
          /\ W1.ents[b].vx = -W1.ents[a].vx

\* cells 1 and 2 are both alive and no longer overlap
Separated ==
    /\ ~W1.ents[1].destroyed /\ ~W1.ents[2].destroyed
    /\ SiblingDistSq >= SiblingMinDistSq

\* cells 1 and 2 overlap; their centers are far enough apart for the
\* repulsion to apply (systems.ts:138); both are inside their merge cooldown
Overlapping ==
    /\ ~W1.ents[1].destroyed /\ ~W1.ents[2].destroyed
    /\ SiblingDistSq < SiblingMinDistSq
Repelled == SiblingDistSq > FP * FP
Cooling ==
    /\ 1 \in DOMAIN W1.mergeFrame /\ 2 \in DOMAIN W1.mergeFrame
    /\ W1.frame < W1.mergeFrame[1] /\ W1.frame < W1.mergeFrame[2]

Repellable == Overlapping /\ Repelled /\ Cooling

GroupingPartitions(W) ==
    LET players == sortedPlayers(W)
        owned == {id \in LiveCells(W) : W.ents[id].clientId # 0}
        places(id) == {p \in (1..Len(players)) \X (1..Cardinality(Ids(W))) :
                          /\ p[2] <= Len(players[p[1]].cells)
                          /\ players[p[1]].cells[p[2]] = id}
    IN  /\ \A id \in owned :
              /\ Cardinality(places(id)) = 1
              /\ \A p \in places(id) : players[p[1]].clientId = W.ents[id].clientId
        /\ \A id \in Ids(W) \ owned : places(id) = {}
        /\ \A k \in 1..Len(players) :
              /\ players[k].cells # <<>>
              /\ \A i \in 1..(Len(players[k].cells) - 1) :
                    players[k].cells[i] < players[k].cells[i + 1]
        /\ \A k \in 1..(Len(players) - 1) :
              StrRank(getClientIdStr(W, players[k].clientId))
                  < StrRank(getClientIdStr(W, players[k + 1].clientId))

\* C14: Ownership Grouping partitions the live cells: every live cell with an
\* owner appears in exactly one owner's list exactly once, destroyed and
\* ownerless cells appear in none, each owner's list ascends by entity
\* identifier, and the owners are in ascending order of their client string.
C14_GroupingPartitions == \A i \in Replicas : GroupingPartitions(w[i])

\* a pass grouped a store in which a destroyed cell lies between live ones,
\* an owner has several cells, and the owner with the first cell sorts last
C14_Witness ==
    /\ Stepped("Movement")
    /\ \E d \in Ids(Pre) : IsCell(Pre, d) /\ Pre.ents[d].destroyed /\ d < Len(Pre.ents)
    /\ \E k \in 1..Len(sortedPlayers(Pre)) : Len(sortedPlayers(Pre)[k].cells) >= 2
    /\ Len(sortedPlayers(Pre)) = 2
    /\ sortedPlayers(Pre)[2].cells[1] = 1

\* the order in which a pass of W visits the owners (as client strings) and
\* each owner's cells; the Merge pass visits the cells in its own order
Traversal(W) ==
    LET players == sortedPlayers(W)
    IN  [k \in 1..Len(players) |->
            [owner |-> getClientIdString(W, players[k].clientId),
             cells |-> players[k].cells,
             merging |-> ArraySort(players[k].cells, LAMBDA a, b : MergeOrder(W, a, b))]]

\* C15: two processes that hold the same cells and client strings but
\* interned the clients in different orders traverse the owners, and the
\* cells of each owner, in the same order in Movement, Split and Merge.
C15_TraversalIndependentOfInterning == Traversal(w[1]) = Traversal(w[2])

\* a pass over two owners whose interned numbers are swapped between the
\* processes
C15_Witness ==
    /\ Stepped("Split")
    /\ Len(Traversal(Pre)) = 2
    /\ \E a, b \in LiveCells(W1) :
          /\ w[1].ents[a].clientId = w[2].ents[b].clientId
          /\ w[1].ents[b].clientId = w[2].ents[a].clientId
          /\ OwnerOf(W1, a) # OwnerOf(W1, b)

\* the number of player's cells (an entry of sortedPlayers(Pre)) the Split
\* pass just taken has split, and the number it has spawned for that owner
SplitCount(player) ==
    Cardinality({id \in SplitBy : Pre.ents[id].clientId = player.clientId})
SpawnCount(player) ==
    Cardinality({id \in CreatedBy("Split") : W1.ents[id].clientId = player.clientId})
\* the number of player's cells of radius at least MIN_SPLIT_RADIUS
EligibleCount(player) ==
    Cardinality({i \in 1..Len(player.cells) :
                    Pre.ents[player.cells[i]].radius >= MIN_SPLIT_RADIUS * FP})

\* the Split pass just taken skipped exactly the owners for which skipped
\* holds and split, for every other owner, its eligible cells up to the
\* remaining capacity
SplitsUnless(skipped(_)) ==
    Stepped("Split") =>
        \A k \in 1..Len(sortedPlayers(Pre)) :
            LET player == sortedPlayers(Pre)[k]
                expected == IF skipped(player) THEN 0
                            ELSE Min(EligibleCount(player),
                                     MAX_CELLS_PER_PLAYER - Len(player.cells))
            IN  SplitCount(player) = expected /\ SpawnCount(player) = expected

AtCapacity(player) == Len(player.cells) >= MAX_CELLS_PER_PLAYER

\* C16 (as stated): the Split Resolver skips an owner if the owner's current
\* input lacks both a split flag and a target (has neither), or if the owner
\* already has MAX_CELLS_PER_PLAYER cells; for every other owner it splits
\* that owner's eligible cells in that frame.
C16_SkipsIfNeitherSplitNorTarget ==
    SplitsUnless(LAMBDA player :
        \/ (~getInput(Pre, player.clientId).split /\ ~getInput(Pre, player.clientId).target)
        \/ AtCapacity(player))

\* C16 (amended): the Split Resolver skips an owner unless the owner's
\* current input has both a split flag and a target, or if the owner already
\* has MAX_CELLS_PER_PLAYER cells; for every other owner it splits that
\* owner's eligible cells, up to the remaining capacity, in that frame.
C16_SkipsUnlessSplitAndTarget ==
    SplitsUnless(LAMBDA player :
        \/ ~getInput(Pre, player.clientId).split
        \/ ~getInput(Pre, player.clientId).target
        \/ AtCapacity(player))

\* a Split pass skipped an owner at capacity who held the split key with a
\* target, after the pass before had split that owner's cells
C16_Witness ==
    /\ Stepped("Split")
    /\ \E k \in 1..Len(sortedPlayers(Pre)) :
          LET player == sortedPlayers(Pre)[k]
          IN  /\ getInput(Pre, player.clientId).split
              /\ getInput(Pre, player.clientId).target
              /\ AtCapacity(player)
              /\ EligibleCount(player) > 0
              /\ SplitCount(player) = 0
              /\ \E id \in LiveCells(Pre) : MapGet(Pre.splitFrame, id) = Pre.frame - 1

\* the owner's cells of radius at least MIN_SPLIT_RADIUS at the start of the
\* Split pass, in ascending identifier order
EligibleCells(player) ==
    SelectSeq(player.cells, LAMBDA id : Pre.ents[id].radius >= MIN_SPLIT_RADIUS * FP)

\* the input of the owner let the Split pass just taken split its cells
OwnerSplits(player) ==
    /\ getInput(Pre, player.clientId).split
    /\ getInput(Pre, player.clientId).target
    /\ ~AtCapacity(player)

\* C17: when an owner with n cells splits, the cells that split are exactly
\* the first min(e, MAX_CELLS_PER_PLAYER - n) of the owner's e cells, in
\* ascending identifier order, whose radius is at least MIN_SPLIT_RADIUS at
\* the start of the Split pass; smaller cells and cells beyond the truncation
\* are left unchanged, with their timing entries.
C17_FirstEligibleCellsSplit ==
    Stepped("Split") =>
        \A k \in 1..Len(sortedPlayers(Pre)) :
            LET player == sortedPlayers(Pre)[k]
                eligible == EligibleCells(player)
                count == Min(Len(eligible), MAX_CELLS_PER_PLAYER - Len(player.cells))
                chosen == {eligible[i] : i \in 1..count}
            IN  OwnerSplits(player) =>
                    /\ \A i \in 1..(Len(player.cells) - 1) :
                          player.cells[i] < player.cells[i + 1]
                    /\ \A i \in 1..Len(player.cells) :
                          LET id == player.cells[i]
                          IN  IF id \in chosen
                              THEN id \in SplitBy
                              ELSE /\ id \notin SplitBy
                                   /\ W1.ents[id] = Pre.ents[id]
                                   /\ MapGet(W1.mergeFrame, id) = MapGet(Pre.mergeFrame, id)
                                   /\ MapGet(W1.splitFrame, id) = MapGet(Pre.splitFrame, id)

\* an owner split with more eligible cells than room: an eligible cell with
\* a lower identifier split, one with a higher identifier was left as it was
C17_Witness ==
    /\ Stepped("Split")
    /\ \E k \in 1..Len(sortedPlayers(Pre)) :
          LET player == sortedPlayers(Pre)[k]
              eligible == EligibleCells(player)
          IN  /\ OwnerSplits(player)
              /\ Len(eligible) > MAX_CELLS_PER_PLAYER - Len(player.cells)
              /\ eligible[1] \in SplitBy
              /\ eligible[Len(eligible)] \notin SplitBy
              /\ W1.ents[eligible[Len(eligible)]] = Pre.ents[eligible[Len(eligible)]]
              /\ \E i \in 1..Len(player.cells) :
                    /\ Pre.ents[player.cells[i]].radius < MIN_SPLIT_RADIUS * FP
                    /\ player.cells[i] < eligible[1]

\* the live cells of the owner with client string c in world W
CellsOf(W, c) == {id \in LiveCells(W) : OwnerOf(W, id) = c}

\* C18: after any sequence of frames, joins, splits, merges and collisions,
\* no owner has more than MAX_CELLS_PER_PLAYER live cells (an owner is
\* connected once: a join is taken only by a client that is not connected).
C18_AtMostMaxCells ==
    \A i \in Replicas : \A c \in ClientStrs :
        Cardinality(CellsOf(w[i], c)) <= MAX_CELLS_PER_PLAYER

\* a Split pass took an owner with more eligible cells than room to exactly
\* MAX_CELLS_PER_PLAYER cells
C18_Witness ==
    /\ Stepped("Split")
    /\ \E k \in 1..Len(sortedPlayers(Pre)) :
          LET player == sortedPlayers(Pre)[k]
          IN  /\ OwnerSplits(player)
              /\ Len(EligibleCells(player)) > MAX_CELLS_PER_PLAYER - Len(player.cells)
              /\ Cardinality(getPlayerCells(W1, player.clientId)) = MAX_CELLS_PER_PLAYER
              /\ Cardinality(CellsOf(W1, getClientIdString(Pre, player.clientId)))
                    = MAX_CELLS_PER_PLAYER

\* the timing entries of cell id after the step are those of a split at frame f
RecordsSplitAt(id, f) ==
    /\ id \in DOMAIN W1.mergeFrame
    /\ id \in DOMAIN W1.splitFrame
    /\ W1.mergeFrame[id] = f + MERGE_DELAY_FRAMES
    /\ W1.splitFrame[id] = f

\* C19: every split performed at frame f records merge-eligibility
\* f + MERGE_DELAY_FRAMES and split-lockout f for both the original cell's
\* identifier and the new cell's identifier, whatever entries the original
\* cell had before; every split cell has its new cell.
C19_SplitRecordsTiming ==
    Stepped("Split") =>
        /\ \A id \in SplitBy : RecordsSplitAt(id, Pre.frame)
        /\ \A id \in CreatedBy("Split") : RecordsSplitAt(id, Pre.frame)
        /\ Cardinality(CreatedBy("Split")) = Cardinality(SplitBy)
        /\ W1.frame = Pre.frame

\* a cell that carried the entries of an earlier split has split again and
\* its entries and those of the new cell are the ones of this frame
C19_Witness ==
    /\ Stepped("Split")
    /\ \E id \in SplitBy, new \in CreatedBy("Split") :
          /\ id \in DOMAIN Pre.mergeFrame
          /\ id \in DOMAIN Pre.splitFrame
          /\ Pre.mergeFrame[id] # Pre.frame + MERGE_DELAY_FRAMES
          /\ Pre.splitFrame[id] # Pre.frame
          /\ RecordsSplitAt(id, Pre.frame)
          /\ IsCell(W1, new)
          /\ W1.ents[new].clientId = Pre.ents[id].clientId
          /\ RecordsSplitAt(new, Pre.frame)

\* the input target of the owner of cell id coincides with the cell's
\* position at the start of the Split pass
TargetOnCell(id) ==
    LET playerInput == getInput(Pre, Pre.ents[id].clientId)
    IN  /\ playerInput.target
        /\ playerInput.tx = Pre.ents[id].x
        /\ playerInput.ty = Pre.ents[id].y

\* cell new is the cell spawned by the split of cell id along the default
\* direction (0, 1): offset by twice the new radius and moving at
\* SPLIT_VELOCITY, straight down
SplitDownward(id, new) ==
    /\ IsCell(W1, new)
    /\ W1.ents[new].clientId = Pre.ents[id].clientId
    /\ W1.ents[new].radius = W1.ents[id].radius
    /\ W1.ents[new].x = Pre.ents[id].x
    /\ W1.ents[new].y = Pre.ents[id].y + 2 * W1.ents[id].radius
    /\ W1.ents[new].vx = 0
    /\ W1.ents[new].vy = SPLIT_VELOCITY * FP

\* C20: when a cell splits while the input target coincides exactly with the
\* cell's position, the split uses the fixed non-zero default direction
\* (0, 1): the new cell is offset and impelled along it, the original cell
\* stays where it was, and every cell's position and velocity is a number.
C20_ZeroDirectionSplit ==
    Stepped("Split") =>
        /\ \A id \in SplitBy :
              TargetOnCell(id) =>
                  /\ \E new \in CreatedBy("Split") : SplitDownward(id, new)
                  /\ W1.ents[id].x = Pre.ents[id].x
                  /\ W1.ents[id].y = Pre.ents[id].y
                  /\ W1.ents[id].vx = Pre.ents[id].vx
                  /\ W1.ents[id].vy = Pre.ents[id].vy
        /\ \A id \in LiveCells(W1) :
              /\ W1.ents[id].x \in Int
              /\ W1.ents[id].y \in Int
              /\ W1.ents[id].vx \in Int
              /\ W1.ents[id].vy \in Int

\* a cell has split with the target exactly on it and its new cell lies
\* straight below it
C20_Witness ==
    /\ Stepped("Split")
    /\ \E id \in SplitBy, new \in CreatedBy("Split") :
          /\ TargetOnCell(id)
          /\ SplitDownward(id, new)
          /\ W1.ents[new].y > W1.ents[id].y

\* cell id is, at the start of the step just taken, before its recorded
\* merge-eligibility frame
BeforeMergeFrame(id) == Pre.frame < MapGet(Pre.mergeFrame, id)

\* cell id was split less than MERGE_DELAY_FRAMES frames before the step
RecentlySplit(id) ==
    /\ id \in DOMAIN Pre.splitFrame
    /\ Pre.frame < Pre.splitFrame[id] + MERGE_DELAY_FRAMES

\* the centers of the live cells a and b are within the merge threshold
WithinMergeThreshold(W, a, b) ==
    LET dx == W.ents[a].x - W.ents[b].x
        dy == W.ents[a].y - W.ents[b].y
    IN  4 * (dx * dx + dy * dy) < (W.ents[a].radius + W.ents[b].radius)
                                   * (W.ents[a].radius + W.ents[b].radius)

\* C21: two sibling cells are never merged in a frame that is before the
\* merge-eligibility frame of either of them: a Merge pass leaves such a cell
\* alive with its radius, and every cell it destroys was eligible; in
\* particular a cell produced by a split at frame f takes part in no merge
\* before frame f + MERGE_DELAY_FRAMES.
C21_MergeCooldown ==
    Stepped("Merge") =>
        /\ \A id \in LiveCells(Pre) :
              (BeforeMergeFrame(id) \/ RecentlySplit(id)) => W1.ents[id] = Pre.ents[id]
        /\ \A b \in DestroyedBy("Merge") : Pre.frame >= MapGet(Pre.mergeFrame, b)

\* a Merge pass has left alone two siblings that are within the merge
\* threshold of each other and were split less than MERGE_DELAY_FRAMES ago
C21_Witness ==
    /\ Stepped("Merge")
    /\ \E a, b \in LiveCells(Pre) :
          /\ a # b
          /\ OwnerOf(Pre, a) = OwnerOf(Pre, b)
          /\ WithinMergeThreshold(Pre, a, b)
          /\ RecentlySplit(a) /\ BeforeMergeFrame(a)
          /\ RecentlySplit(b) /\ BeforeMergeFrame(b)
          /\ a \in LiveCells(W1) /\ b \in LiveCells(W1)

\* the cells whose radius a Merge pass changed: the survivors of its merges
SurvivorsOfMerge ==
    IF Stepped("Merge")
    THEN {id \in LiveCells(Pre) : W1.ents[id].radius # Pre.ents[id].radius}
    ELSE {}

\* cell a comes before cell b in the order of the Merge pass: it had the
\* larger radius at the start of the pass, or the same radius and the lower
\* identifier
SortsBefore(a, b) ==
    \/ Pre.ents[a].radius > Pre.ents[b].radius
    \/ Pre.ents[a].radius = Pre.ents[b].radius /\ a < b

\* C22: in the Merge pass each owner's cells are taken in order of radius
\* descending, ties broken by identifier ascending: every cell a merge
\* destroys was absorbed by a sibling that sorts before it (larger radius at
\* the start of the pass, or lower identifier when the radii were equal) and
\* whose center it was within the merge threshold of; a survivor stays alive
\* and keeps its own position, as every cell does.
C22_MergeOrderAndSurvivor ==
    Stepped("Merge") =>
        /\ \A b \in DestroyedBy("Merge") :
              \E a \in SurvivorsOfMerge :
                  LET dx == Pre.ents[a].x - Pre.ents[b].x
                      dy == Pre.ents[a].y - Pre.ents[b].y
                      reach == W1.ents[a].radius + Pre.ents[b].radius
                  IN  /\ OwnerOf(Pre, a) = OwnerOf(Pre, b)
                      /\ SortsBefore(a, b)
                      /\ 4 * (dx * dx + dy * dy) < (reach + 2) * (reach + 2)
        /\ \A a \in SurvivorsOfMerge :
              /\ ~W1.ents[a].destroyed
              /\ W1.ents[a].radius > Pre.ents[a].radius
              /\ \E b \in DestroyedBy("Merge") :
                    OwnerOf(Pre, a) = OwnerOf(Pre, b) /\ SortsBefore(a, b)
        /\ \A id \in Ids(Pre) :
              W1.ents[id].x = Pre.ents[id].x /\ W1.ents[id].y = Pre.ents[id].y

\* a Merge pass in which the larger cell 2 absorbed its smaller siblings 1
\* (of lower identifier) and 4 and stayed where it was
C22_Witness ==
    /\ Stepped("Merge")
    /\ Pre.ents[1].radius < Pre.ents[2].radius
    /\ DestroyedBy("Merge") = {1, 4}
    /\ SurvivorsOfMerge = {2}
    /\ W1.ents[2].x = Pre.ents[2].x
    /\ W1.ents[2].y = Pre.ents[2].y

\* the radius of a survivor of radius r after absorbing the cells of the
\* sequence absorbed one after the other, each with the radius reached so far
RECURSIVE AbsorbAll(_, _, _)
AbsorbAll(r, absorbed, k) ==
    IF k > Len(absorbed) THEN r
    ELSE AbsorbAll(MergedRadius(r, Pre.ents[absorbed[k]].radius), absorbed, k + 1)

\* the cells of the set cells in the order of the Merge pass
InMergeOrder(cells) ==
    ArraySort(SetToSeq(cells), LAMBDA a, b : MergeOrder(Pre, a, b))

\* C23: within one Merge pass a cell destroyed by a merge takes part in no
\* later pair (its radius is the one it had, and it is absorbed once: the
\* destroyed cells can be shared out among the survivors so that each
\* survivor's radius is the result of absorbing its share one cell after the
\* other), while a survivor may absorb several siblings in the same pass,
\* each absorption using the survivor's already updated radius.
C23_DestroyedCellsLeaveThePass ==
    Stepped("Merge") =>
        /\ \A b \in DestroyedBy("Merge") :
              /\ b \notin SurvivorsOfMerge
              /\ W1.ents[b] = [Pre.ents[b] EXCEPT !.destroyed = TRUE]
        /\ \E by \in [DestroyedBy("Merge") -> SurvivorsOfMerge] :
              \A a \in SurvivorsOfMerge :
                  LET share == {b \in DestroyedBy("Merge") : by[b] = a}
                  IN  /\ share # {}
                      /\ \A b \in share : OwnerOf(Pre, a) = OwnerOf(Pre, b)
                      /\ W1.ents[a].radius
                            = AbsorbAll(Pre.ents[a].radius, InMergeOrder(share), 1)

\* a Merge pass in which cell 2 absorbed cell 1 and then cell 4, which is
\* within the merge threshold only of the radius cell 2 has after absorbing
\* cell 1; cell 5, within the threshold of the destroyed cell 1, and cell 3,
\* within the threshold of the destroyed cell 4, absorbed nothing
C23_Witness ==
    /\ Stepped("Merge")
    /\ DestroyedBy("Merge") = {1, 4}
    /\ SurvivorsOfMerge = {2}
    /\ ~WithinMergeThreshold(Pre, 2, 4)
    /\ W1.ents[2].radius
          = MergedRadius(MergedRadius(Pre.ents[2].radius, Pre.ents[1].radius),
                         Pre.ents[4].radius)
    /\ W1.ents[2].radius # MergedRadius(Pre.ents[2].radius, Pre.ents[4].radius)
    /\ WithinMergeThreshold(Pre, 1, 5)
    /\ WithinMergeThreshold(Pre, 3, 4)
    /\ W1.ents[5] = Pre.ents[5]
    /\ W1.ents[3] = Pre.ents[3]

\* the contact the Collide step just taken has dispatched
Contact == Head(Pre.pending)
FoodContact == Stepped("Collide") /\ IsFood(Pre, Contact[2])
CellContact == Stepped("Collide") /\ IsCell(Pre, Contact[2])

\* the step changed nothing but the entities of the set touched
OnlyTouched(touched) ==
    /\ \A id \in Ids(Pre) \ touched : W1.ents[id] = Pre.ents[id]
    /\ Ids(W1) = Ids(Pre)
    /\ W1.mergeFrame = Pre.mergeFrame
    /\ W1.splitFrame = Pre.splitFrame

\* C24: a cell-food contact changes nothing if the food is already
\* destroyed; otherwise the cell's radius grows by foodRadius * FOOD_GROW
\* clamped to MAX_RADIUS and the food is destroyed.  Hence a food entity
\* grows at most one cell, once: every later contact with it is of the
\* first kind.
C24_FoodEatenOnce ==
    FoodContact =>
        LET cell == Contact[1]
            food == Contact[2]
            grown == Pre.ents[cell].radius
                        + FDiv(Pre.ents[food].radius * FOOD_GROW_NUM, FOOD_GROW_DEN)
        IN  IF Pre.ents[food].destroyed
            THEN OnlyTouched({})
            ELSE /\ OnlyTouched({cell, food})
                 /\ W1.ents[cell]
                       = [Pre.ents[cell] EXCEPT
                             !.radius = IF grown > MAX_RADIUS * FP THEN MAX_RADIUS * FP
                                        ELSE grown]
                 /\ W1.ents[food] = [Pre.ents[food] EXCEPT !.destroyed = TRUE]

\* a second contact with a pellet eaten earlier in the same frame by another
\* cell has left the second cell as it was
C24_Witness ==
    /\ FoodContact
    /\ Pre.ents[Contact[2]].destroyed
    /\ ~Pre.ents[Contact[1]].destroyed
    /\ W1.ents[Contact[1]].radius = Pre.ents[Contact[1]].radius
    /\ \E other \in LiveCells(W1) \ {Contact[1]} :
          Overlap(W1, other, Contact[2])

\* a party of the contact just dispatched was already destroyed: the cell
\* passed first, or the cell passed second
StaleContact ==
    /\ Stepped("Collide")
    /\ \/ Pre.ents[Contact[1]].destroyed
       \/ IsCell(Pre, Contact[2]) /\ Pre.ents[Contact[2]].destroyed

\* C25: every per-entity operation checks for destruction before acting: a
\* cell that was already destroyed earlier in the same frame (eaten or merged
\* away) never grows, never eats food or another cell, and is never eaten a
\* second time by a later contact callback of that frame; a contact with such
\* a cell changes nothing.
C25_DestroyedCellsAreInert ==
    StaleContact => OnlyTouched({})

\* cell eater has eaten cell prey in the step just taken
Ate(eater, prey) ==
    LET grown == Pre.ents[eater].radius
                    + FDiv(Pre.ents[prey].radius * PLAYER_GROW_NUM, PLAYER_GROW_DEN)
    IN  /\ W1.ents[prey].destroyed
        /\ W1.ents[eater].radius = IF grown > MAX_RADIUS * FP THEN MAX_RADIUS * FP ELSE grown
        /\ ~W1.ents[eater].destroyed

\* the sequence seq holds the element e
Holds(seq, e) == \E k \in 1..Len(seq) : seq[k] = e

\* C26: in a contact between two live cells of different owners, whichever
\* of the two has a radius exceeding the other's radius times EAT_RATIO is
\* the eater, whatever the order in which the callback receives them: it
\* grows by preyRadius * PLAYER_GROW clamped to MAX_RADIUS and the prey is
\* destroyed, in this callback or in the callback of the same contact with
\* the cells the other way round, when that one is still to come.
C26_EaterWhateverTheOrder ==
    (/\ CellContact
     /\ OwnerOf(Pre, Contact[1]) # OwnerOf(Pre, Contact[2])
     /\ ~Pre.ents[Contact[1]].destroyed
     /\ ~Pre.ents[Contact[2]].destroyed) =>
        LET a == Contact[1]
            b == Contact[2]
            ra == Pre.ents[a].radius
            rb == Pre.ents[b].radius
        IN  /\ ra * EAT_RATIO_DEN > rb * EAT_RATIO_NUM => Ate(a, b)
            /\ rb * EAT_RATIO_DEN > ra * EAT_RATIO_NUM =>
                  Ate(b, a) \/ Holds(W1.pending, <<b, a>>)

\* C27: a contact between two cells of the same owner is a no-op in the
\* Collision Resolver: neither cell is destroyed, no radius changes and no
\* merge-eligibility entry changes, whatever the two radii are.
C27_SameOwnerContactIsNoOp ==
    (CellContact /\ OwnerOf(Pre, Contact[1]) = OwnerOf(Pre, Contact[2])) =>
        OnlyTouched({})

\* a contact between two live siblings, the first of a radius exceeding
\* EAT_RATIO times the other's, has left both as they were
C27_Witness ==
    /\ CellContact
    /\ OwnerOf(Pre, Contact[1]) = OwnerOf(Pre, Contact[2])
    /\ ~Pre.ents[Contact[1]].destroyed
    /\ ~Pre.ents[Contact[2]].destroyed
    /\ Pre.ents[Contact[1]].radius * EAT_RATIO_DEN > Pre.ents[Contact[2]].radius * EAT_RATIO_NUM
    /\ Contact[1] \in LiveCells(W1)
    /\ Contact[2] \in LiveCells(W1)
    /\ W1.ents[Contact[1]].radius = Pre.ents[Contact[1]].radius
    /\ Contact[2] \in DOMAIN W1.mergeFrame

\* the live cells of Pre with an owner: the cells the Movement pass visits
OwnedCells == {id \in LiveCells(Pre) : Pre.ents[id].clientId \in 1..Len(Pre.clients)}

\* the cell is outside its split lockout at the start of the step
OutsideLockout(id) == Pre.frame - MapGet(Pre.splitFrame, id) > SPLIT_CONTROL_DELAY

\* the distance from cell id to its owner's target, as Movement computes it
TargetDist(id) ==
    LET playerInput == getInput(Pre, Pre.ents[id].clientId)
        dx == playerInput.tx - Pre.ents[id].x
        dy == playerInput.ty - Pre.ents[id].y
        d == dSqrt(dx * dx + dy * dy)
    IN  IF d = 0 THEN 1 ELSE d

\* the owner of cell id has a target farther than the stop threshold
\* (radius * 0.2)
TargetBeyondStop(id) ==
    /\ getInput(Pre, Pre.ents[id].clientId).target
    /\ 5 * TargetDist(id) > Pre.ents[id].radius

\* the repulsion vector of cell id in the Movement pass just taken
RepulsionOf(id) ==
    IF id \in DOMAIN Repulsion(Pre) THEN Repulsion(Pre)[id] ELSE [vx |-> 0, vy |-> 0]

\* C28: for a cell outside its split lockout, the velocity set by Movement is
\* unit(target - position) * SPEED plus the cell's repulsion vector when the
\* owner's input has a target farther than the stop threshold, and the
\* repulsion vector alone when the target is within the stop threshold or the
\* owner has no input (or an input without target).
C28_MovementVelocity ==
    Stepped("Movement") =>
        \A id \in OwnedCells :
            OutsideLockout(id) =>
                LET playerInput == getInput(Pre, Pre.ents[id].clientId)
                    dx == playerInput.tx - Pre.ents[id].x
                    dy == playerInput.ty - Pre.ents[id].y
                    rep == RepulsionOf(id)
                IN  IF TargetBeyondStop(id)
                    THEN /\ W1.ents[id].vx = FDiv(dx * SPEED * FP, TargetDist(id)) + rep.vx
                         /\ W1.ents[id].vy = FDiv(dy * SPEED * FP, TargetDist(id)) + rep.vy
                    ELSE /\ W1.ents[id].vx = rep.vx
                         /\ W1.ents[id].vy = rep.vy

\* a Movement pass over overlapping siblings whose owner has a target: one
\* cell, pushed by a sibling and within the stop threshold of the target, got
\* the repulsion alone, another the steering velocity plus its repulsion
C28_Witness ==
    /\ Stepped("Movement")
    /\ \E a, b \in OwnedCells :
          /\ OutsideLockout(a) /\ OutsideLockout(b)
          /\ getInput(Pre, Pre.ents[a].clientId).target
          /\ ~TargetBeyondStop(a)
          /\ RepulsionOf(a).vx # 0
          /\ W1.ents[a].vx = RepulsionOf(a).vx
          /\ TargetBeyondStop(b)
          /\ RepulsionOf(b).vx # 0
          /\ W1.ents[b].vx # RepulsionOf(b).vx

\* the velocity Movement computes for cell id from input and repulsion
SteeredVelocity(id) ==
    LET playerInput == getInput(Pre, Pre.ents[id].clientId)
        dx == playerInput.tx - Pre.ents[id].x
        dy == playerInput.ty - Pre.ents[id].y
        rep == RepulsionOf(id)
    IN  IF TargetBeyondStop(id)
        THEN [vx |-> FDiv(dx * SPEED * FP, TargetDist(id)) + rep.vx,
              vy |-> FDiv(dy * SPEED * FP, TargetDist(id)) + rep.vy]
        ELSE [vx |-> rep.vx, vy |-> rep.vy]

\* every Movement pass leaves the velocity of a cell split at frame s
\* untouched while frame - s <= SPLIT_CONTROL_DELAY and sets it from input
\* and repulsion once frame - s > SPLIT_CONTROL_DELAY
LockoutRespected ==
    Stepped("Movement") =>
        \A id \in OwnedCells :
            id \in DOMAIN Pre.splitFrame =>
                IF Pre.frame - Pre.splitFrame[id] <= SPLIT_CONTROL_DELAY
                THEN /\ W1.ents[id].vx = Pre.ents[id].vx
                     /\ W1.ents[id].vy = Pre.ents[id].vy
                ELSE /\ W1.ents[id].vx = SteeredVelocity(id).vx
                     /\ W1.ents[id].vy = SteeredVelocity(id).vy

\* the live split cells, and those still inside the lockout window
CellsOnceSplit == {id \in LiveCells(W1) : id \in DOMAIN W1.splitFrame}
LockedCells == {id \in CellsOnceSplit : W1.frame - W1.splitFrame[id] <= SPLIT_CONTROL_DELAY}

\* some split cell is inside its lockout window
LockedOut == LockedCells # {}

\* a Movement pass has set the velocity of every split cell
ControlBack ==
    /\ Stepped("Movement")
    /\ \A id \in CellsOnceSplit :
          /\ Pre.frame - Pre.splitFrame[id] > SPLIT_CONTROL_DELAY
          /\ W1.ents[id].vx = SteeredVelocity(id).vx
          /\ W1.ents[id].vy = SteeredVelocity(id).vy

\* C29: for a cell split at frame s, Movement leaves the cell's velocity
\* untouched in every frame f with f - s <= SPLIT_CONTROL_DELAY and sets it
\* from input and repulsion in every frame f with f - s > SPLIT_CONTROL_DELAY;
\* while the engine keeps stepping frames, control of a split cell is
\* therefore always regained after the lockout window.
C29_SplitLockout == []LockoutRespected /\ (LockedOut ~> ControlBack)

\* a Movement pass has given back control of the two halves of a split made
\* SPLIT_CONTROL_DELAY + 1 frames before, after passes that left the new
\* cell's split velocity untouched
C29_Witness ==
    /\ ControlBack
    /\ \E id \in CellsOnceSplit :
          /\ Pre.frame - Pre.splitFrame[id] = SPLIT_CONTROL_DELAY + 1
          /\ Pre.ents[id].vy = SPLIT_VELOCITY * FP
          /\ W1.ents[id].vy # Pre.ents[id].vy

\* the cell is within the world by its radius on both axes
WithinWorld(c) ==
    /\ c.radius <= c.x /\ c.x <= WORLD_WIDTH * FP - c.radius
    /\ c.radius <= c.y /\ c.y <= WORLD_HEIGHT * FP - c.radius

\* C30: after every Movement pass each live owned cell's position satisfies
\* radius <= x <= WORLD_WIDTH - radius and radius <= y <= WORLD_HEIGHT - radius,
\* for the radius the cell has at that moment.
C30_ClampedAfterMovement ==
    Stepped("Movement") =>
        \A i \in Replicas :
            \A id \in LiveCells(w[i]) :
                w[i].ents[id].clientId \in 1..Len(w[i].clients) => WithinWorld(w[i].ents[id])

\* a Movement pass has brought back a cell that was closer to two walls than
\* its radius
C30_Witness ==
    /\ Stepped("Movement")
    /\ \E id \in OwnedCells :
          /\ Pre.ents[id].x < Pre.ents[id].radius
          /\ Pre.ents[id].y > WORLD_HEIGHT * FP - Pre.ents[id].radius
          /\ W1.ents[id].x = W1.ents[id].radius
          /\ W1.ents[id].y = WORLD_HEIGHT * FP - W1.ents[id].radius
          /\ WithinWorld(W1.ents[id])

\* C31: in each frame a cell's position is integrated exactly once, the new
\* position being the old position plus the cell's velocity (one unit step),
\* and the world-bounds clamp is applied to the integrated position.
C31_IntegratedThenClamped ==
    Stepped("Physics") =>
        \A id \in LiveCells(Pre) :
            /\ W1.ents[id].x = ClampX(Pre.ents[id].x + Pre.ents[id].vx, Pre.ents[id].radius)
            /\ W1.ents[id].y = ClampY(Pre.ents[id].y + Pre.ents[id].vy, Pre.ents[id].radius)

\* the generator state after n draws made from state s
RECURSIVE AfterDraws(_, _)
AfterDraws(s, n) == IF n = 0 THEN s ELSE AfterDraws(RngNext(s), n - 1)

\* entity e has the color and the position of three draws made from state s
\* in the order color, x, y, the position within the given margin of the walls
DrawnInOrder(e, s, margin) ==
    /\ e.color = RandInt(s, NUM_COLORS)
    /\ e.x = (margin + RandInt(AfterDraws(s, 1), WORLD_WIDTH - 2 * margin)) * FP
    /\ e.y = (margin + RandInt(AfterDraws(s, 2), WORLD_HEIGHT - 2 * margin)) * FP

\* spawnCell options that supply the color, x, y as told
OptionsSupplying(hc, hx, hy) ==
    [NoOptions EXCEPT !.hasColor = hc, !.color = 5, !.hasX = hx, !.x = 77 * FP,
                      !.hasY = hy, !.y = 88 * FP]

\* a spawnCell call made in world W with the given options draws the color
\* first if it is not supplied, then x if it is not supplied, then y likewise
SpawnCellDraws(W, hc, hx, hy) ==
    LET after == spawnCell(W, "p1", OptionsSupplying(hc, hx, hy))
        e == after.ents[Len(after.ents)]
        sx == AfterDraws(W.rng, IF hc THEN 0 ELSE 1)
        sy == AfterDraws(sx, IF hx THEN 0 ELSE 1)
    IN  /\ after.rng = AfterDraws(sy, IF hy THEN 0 ELSE 1)
        /\ e.color = IF hc THEN 5 ELSE RandInt(W.rng, NUM_COLORS)
        /\ e.x = IF hx THEN 77 * FP ELSE (100 + RandInt(sx, WORLD_WIDTH - 200)) * FP
        /\ e.y = IF hy THEN 88 * FP ELSE (100 + RandInt(sy, WORLD_HEIGHT - 200)) * FP

\* C32: spawnFood consumes exactly 3 draws per call in the order color, x, y;
\* spawnCell consumes one draw for the color only when no color is supplied
\* and one draw each for x and y only when that coordinate is not supplied, in
\* that same order, so a split (which supplies color, x, y and radius)
\* consumes no draw.
C32_SpawnDraws ==
    /\ \A f \in CreatedBy("FoodSpawn") :
          /\ DrawnInOrder(W1.ents[f], AfterDraws(Pre.rng, 1), 50)
          /\ W1.rng = AfterDraws(Pre.rng, 4)
    /\ \A c \in CreatedBy("Connect") :
          /\ DrawnInOrder(W1.ents[c], Pre.rng, 100)
          /\ W1.rng = AfterDraws(Pre.rng, 3)
    /\ Stepped("Split") => W1.rng = Pre.rng
    /\ \A hc, hx, hy \in BOOLEAN : SpawnCellDraws(W1, hc, hx, hy)

\* the food spawn of a frame has created a pellet from the three draws after
\* its gate draw, and the Split pass of that frame has created a cell
C32_Witness ==
    /\ CreatedBy("Split") # {}
    /\ W1.rng = Pre.rng
    /\ \E f \in Ids(W1) :
          /\ IsFood(W1, f)
          /\ f + 1 \in CreatedBy("Split")
          /\ \E s \in {AfterDraws(seed, 1) : seed \in Seeds} :
                DrawnInOrder(W1.ents[f], s, 50) /\ W1.rng = AfterDraws(s, 3)

\* the pairs of live sibling cells the Movement pass saw, lower identifier first
SiblingPairs ==
    {p \in OwnedCells \X OwnedCells :
        p[1] < p[2] /\ Pre.ents[p[1]].clientId = Pre.ents[p[2]].clientId}
\* the squared center distance of the pair and its radii sum squared, as the
\* pass saw them
PairDistSq(p) ==
    (Pre.ents[p[1]].x - Pre.ents[p[2]].x) * (Pre.ents[p[1]].x - Pre.ents[p[2]].x)
        + (Pre.ents[p[1]].y - Pre.ents[p[2]].y) * (Pre.ents[p[1]].y - Pre.ents[p[2]].y)
PairMinDistSq(p) ==
    (Pre.ents[p[1]].radius + Pre.ents[p[2]].radius)
        * (Pre.ents[p[1]].radius + Pre.ents[p[2]].radius)
\* epsilon < squared distance < (sum of radii) squared; epsilon is 1 world unit
InRepulsionWindow(p) == FP * FP < PairDistSq(p) /\ PairDistSq(p) < PairMinDistSq(p)
\* the owner of the pair has no other cell and no target, and steers both cells
AlonePair(p) ==
    /\ \A id \in OwnedCells : Pre.ents[id].clientId = Pre.ents[p[1]].clientId => id \in {p[1], p[2]}
    /\ ~getInput(Pre, Pre.ents[p[1]].clientId).target
    /\ ControlRegained(Pre, p[1]) /\ ControlRegained(Pre, p[2])

\* C33: sibling cells whose centers coincide exactly, or whose squared center
\* distance is at most the epsilon 1, receive no repulsion from each other in
\* that Movement pass, and no division by a zero distance is performed;
\* repulsion is applied to a pair only when
\* epsilon < squared distance < (sum of radii) squared.
C33_NoRepulsionAtCoincidence ==
    Stepped("Movement") =>
        \A p \in SiblingPairs :
            /\ ~InRepulsionWindow(p) => PairPush(Pre, p[1], p[2]) = [vx |-> 0, vy |-> 0]
            /\ InRepulsionWindow(p) =>
                  /\ dSqrt(PairDistSq(p)) > 0
                  /\ PairPush(Pre, p[1], p[2]) # [vx |-> 0, vy |-> 0]
            /\ AlonePair(p) =>
                  /\ (W1.ents[p[1]].vx # 0 \/ W1.ents[p[1]].vy # 0) <=> InRepulsionWindow(p)
                  /\ W1.ents[p[2]].vx = - W1.ents[p[1]].vx
                  /\ W1.ents[p[2]].vy = - W1.ents[p[1]].vy

\* two overlapping siblings exactly one world unit apart, and two with the
\* same center, have been left without velocity by a Movement pass
C33_Witness ==
    /\ Stepped("Movement")
    /\ \E p \in SiblingPairs :
          /\ AlonePair(p)
          /\ PairDistSq(p) \in {0, FP * FP}
          /\ PairDistSq(p) < PairMinDistSq(p)
          /\ W1.ents[p[1]].vx = 0 /\ W1.ents[p[1]].vy = 0
          /\ W1.ents[p[2]].vx = 0 /\ W1.ents[p[2]].vy = 0

\* C34: the periodic food spawn consumes exactly one PRNG draw for its
\* probability gate in every frame, whether or not a food is spawned and
\* whether or not the food count is at MAX_FOOD, spawns at most one food per
\* frame, and never raises the number of live food entities above MAX_FOOD.
C34_FoodSpawnGate ==
    /\ Stepped("FoodSpawn") =>
          /\ Cardinality(CreatedBy("FoodSpawn")) <= 1
          /\ \A f \in CreatedBy("FoodSpawn") : IsFood(W1, f)
          /\ CreatedBy("FoodSpawn") # {} <=> ShouldSpawn(Pre.rng) /\ FoodCount(Pre) < MAX_FOOD
          /\ W1.rng = AfterDraws(Pre.rng, IF CreatedBy("FoodSpawn") = {} THEN 1 ELSE 4)
    /\ last # NoLast =>
          \A f \in Ids(W1) \ Ids(Pre) : IsFood(W1, f) => Stepped("FoodSpawn")
    /\ FoodCount(W1) <= MAX_FOOD

\* the gate draw said spawn with MAX_FOOD pellets in the room: the draw was
\* consumed and no pellet was made
C34_Witness ==
    /\ Stepped("FoodSpawn")
    /\ ShouldSpawn(Pre.rng)
    /\ FoodCount(Pre) = MAX_FOOD
    /\ CreatedBy("FoodSpawn") = {}
    /\ W1.rng = RngNext(Pre.rng)

\* C35: a cell that has never been split (no split-lockout entry) is never in
\* lockout: in every frame, including the first SPLIT_CONTROL_DELAY frames of
\* the simulation, Movement overwrites its velocity from the owner's input and
\* repulsion.
C35_NeverSplitNeverLocked ==
    Stepped("Movement") =>
        \A id \in OwnedCells :
            id \notin DOMAIN Pre.splitFrame =>
                /\ W1.ents[id].vx = SteeredVelocity(id).vx
                /\ W1.ents[id].vy = SteeredVelocity(id).vy

\* the Split pass shrank cell id to r / sqrt(2), made a sibling of that radius
\* for the same owner and wrote both record entries of both cells
SplitInFull(id) ==
    /\ W1.ents[id].radius = HalvedRadius(Pre.ents[id].radius)
    /\ \E n \in CreatedBy("Split") :
          /\ W1.ents[n].clientId = Pre.ents[id].clientId
          /\ W1.ents[n].radius = W1.ents[id].radius
          /\ MapGet(W1.mergeFrame, n) = Pre.frame + MERGE_DELAY_FRAMES
          /\ n \in DOMAIN W1.splitFrame /\ W1.splitFrame[n] = Pre.frame
    /\ MapGet(W1.mergeFrame, id) = Pre.frame + MERGE_DELAY_FRAMES
    /\ id \in DOMAIN W1.splitFrame /\ W1.splitFrame[id] = Pre.frame
\* the Split pass left the cell's radius and both its records as they were
SplitNotAtAll(id) ==
    /\ W1.ents[id].radius = Pre.ents[id].radius
    /\ (id \in DOMAIN W1.mergeFrame) = (id \in DOMAIN Pre.mergeFrame)
    /\ MapGet(W1.mergeFrame, id) = MapGet(Pre.mergeFrame, id)
    /\ (id \in DOMAIN W1.splitFrame) = (id \in DOMAIN Pre.splitFrame)
    /\ MapGet(W1.splitFrame, id) = MapGet(Pre.splitFrame, id)
\* the live cells of the owner numbered c
CellsOwnedBy(W, c) == {id \in LiveCells(W) : W.ents[id].clientId = c}

\* C36: a split is all-or-nothing for each selected cell: either the original
\* cell is shrunk to r / sqrt(2), a new sibling of radius r / sqrt(2) is
\* created and both record entries are written, or the cell's radius, the
\* owner's cell count and both records are left unchanged; a cell is never
\* shrunk without a sibling being created, including when the owner's client
\* string cannot be resolved.
C36_SplitAllOrNothing ==
    Stepped("Split") =>
        /\ \A id \in LiveCells(Pre) : SplitInFull(id) \/ SplitNotAtAll(id)
        /\ \A c \in {Pre.ents[id].clientId : id \in LiveCells(Pre)} :
              Cardinality(CellsOwnedBy(W1, c)) =
                  Cardinality(CellsOwnedBy(Pre, c))
                      + Cardinality({id \in CellsOwnedBy(Pre, c) :
                                        W1.ents[id].radius # Pre.ents[id].radius})

\* p1's one cell, its distance to the target of p1's input, and its owner's
\* having a target and no other cell
Chaser == CHOOSE id \in LiveCells(W1) : OwnerOf(W1, id) = "p1"
ChaserDist ==
    LET playerInput == getInput(W1, W1.ents[Chaser].clientId)
        dx == playerInput.tx - W1.ents[Chaser].x
        dy == playerInput.ty - W1.ents[Chaser].y
    IN  dSqrt(dx * dx + dy * dy)
Chasing ==
    /\ Cardinality({id \in LiveCells(W1) : OwnerOf(W1, id) = "p1"}) = 1
    /\ getInput(W1, W1.ents[Chaser].clientId).target
\* the cell is within the stop threshold of the target, without velocity
AtRest ==
    /\ Chasing
    /\ 5 * ChaserDist <= W1.ents[Chaser].radius
    /\ W1.ents[Chaser].vx = 0 /\ W1.ents[Chaser].vy = 0

C38_InsideAtFrameEnd ==
    Stepped("EndFrame") =>
        \A i \in Replicas : \A id \in LiveCells(w[i]) : WithinWorld(w[i].ents[id])

\* C2: restoring a snapshot (entity component values, PRNG state, frame
\* counter) and replaying the same inputs at the same frames ends, at the
\* frame the rollback was made, in the state of the first run.
C2_RollbackEquivalence ==
    ReplayDone =>
        /\ Serialize(W1) = Serialize(ref)
        /\ W1.rng = ref.rng

(***************************************************************************)
(* The rollback harness of src/tests/test-rollback.ts: its own simulation  *)
(* step (movement toward the target only), saveSnapshot / loadSnapshot,    *)
(* and the delayed-delivery loop of 'Multiple rollbacks converge to same   *)
(* state'.  Client A receives every input at its frame; client B receives  *)
(* it `delay` frames late and rolls back.                                  *)
(***************************************************************************)
\* SPEED of test-rollback.ts
H_SPEED == 5
\* frames both clients simulate
HarnessFrames == 4
\* the largest delivery delay
MaxDelay == 2
\* the largest frame an input of the schedule is stamped with
MaxInputFrame == 2

HarnessTargets == {<<300, 300>>, <<100, 500>>}

hSpawnCell(sim, clientId, x, y) ==
    [sim EXCEPT !.rng = RngNext(@),
                !.cells = Append(@, [x |-> x, y |-> y, vx |-> 0, vy |-> 0,
                                     radius |-> INITIAL_RADIUS * FP, clientId |-> clientId])]

\* createSimulation(seed), then the two spawnCell calls of the test
createSimulation(seed) ==
    hSpawnCell(hSpawnCell([cells |-> <<>>, inputs |-> EmptyMap, frame |-> 0, rng |-> seed],
                          1, 100 * FP, 100 * FP),
               2, 500 * FP, 500 * FP)

hStepCell(sim, c) ==
    LET input == IF c.clientId \in DOMAIN sim.inputs THEN sim.inputs[c.clientId] ELSE NoInput
        dx == input.tx - c.x
        dy == input.ty - c.y
        d0 == dSqrt(dx * dx + dy * dy)
        dist == IF d0 = 0 THEN 1 ELSE d0
        vx == IF ~input.target THEN c.vx
              ELSE IF dist > FP THEN FDiv(dx * H_SPEED * FP, dist) ELSE 0
        vy == IF ~input.target THEN c.vy
              ELSE IF dist > FP THEN FDiv(dy * H_SPEED * FP, dist) ELSE 0
    IN  [c EXCEPT !.vx = vx, !.vy = vy,
                  !.x = Max(INITIAL_RADIUS * FP, Min(WW - INITIAL_RADIUS * FP, c.x + vx)),
                  !.y = Max(INITIAL_RADIUS * FP, Min(WH - INITIAL_RADIUS * FP, c.y + vy))]

stepSimulation(sim) ==
    [sim EXCEPT !.cells = [i \in 1..Len(sim.cells) |-> hStepCell(sim, sim.cells[i])],
                !.frame = @ + 1]

RECURSIVE stepTimes(_, _)
stepTimes(sim, n) == IF n = 0 THEN sim ELSE stepTimes(stepSimulation(sim), n - 1)

saveSnapshot(sim) ==
    [frame |-> sim.frame, rngState |-> sim.rng,
     entityStates |-> [i \in 1..Len(sim.cells) |->
                          [x |-> sim.cells[i].x, y |-> sim.cells[i].y,
                           radius |-> sim.cells[i].radius]]]

loadSnapshot(sim, snapshot) ==
    [sim EXCEPT !.cells = [i \in 1..Len(sim.cells) |->
                              IF i \in DOMAIN snapshot.entityStates
                              THEN [sim.cells[i] EXCEPT !.x = snapshot.entityStates[i].x,
                                                        !.y = snapshot.entityStates[i].y,
                                                        !.radius = snapshot.entityStates[i].radius]
                              ELSE sim.cells[i]],
                !.frame = snapshot.frame,
                !.rng = snapshot.rngState]

hSetInput(sim, inp) ==
    [sim EXCEPT !.inputs = MapSet(@, inp.clientId,
                                  [target |-> TRUE, tx |-> inp.target[1] * FP,
                                   ty |-> inp.target[2] * FP, split |-> FALSE])]

\* cA.world.setInput for inputs[from..to]
RECURSIVE hSetInputs(_, _, _, _)
hSetInputs(sim, inputs, from, to) ==
    IF from > to THEN sim
    ELSE hSetInputs(hSetInput(sim, inputs[from]), inputs, from + 1, to)

\* client A: the inputs stamped with this frame, then one step (lines 505-512)
RECURSIVE onTimeInputs(_, _, _, _)
onTimeInputs(sim, inputs, idx, frame) ==
    IF idx <= Len(inputs) /\ inputs[idx].frame = frame
    THEN onTimeInputs(hSetInput(sim, inputs[idx]), inputs, idx + 1, frame)
    ELSE [sim |-> sim, idx |-> idx]

\* client B: the rollback made when inputs[idx] arrives at loop frame `frame`
\* (lines 528-546): restore the initial snapshot, set every input received so
\* far, resimulate to the current frame
rollbackAndResimulate(sim, snapshot, inputs, idx, frame) ==
    stepTimes(hSetInputs(loadSnapshot(sim, snapshot), inputs, 1, idx), frame)

\* client B: the inputs that are `delay` frames old (lines 519-550)
RECURSIVE lateInputs(_, _, _, _, _, _)
lateInputs(sim, snapshot, inputs, idx, frame, delay) ==
    IF idx <= Len(inputs) /\ inputs[idx].frame <= frame - delay
    THEN LET rolled == IF inputs[idx].frame < frame
                       THEN rollbackAndResimulate(sim, snapshot, inputs, idx, frame)
                       ELSE sim
         IN  lateInputs(hSetInput(rolled, inputs[idx]), snapshot, inputs, idx + 1, frame, delay)
    ELSE [sim |-> sim, idx |-> idx]

ScheduleEntries ==
    {[frame |-> f, clientId |-> c, target |-> t] :
        f \in 0..MaxInputFrame, c \in {1, 2}, t \in HarnessTargets}

HarnessSchedules ==
    {<<e>> : e \in ScheduleEntries}
    \cup {<<p[1], p[2]>> : p \in {q \in ScheduleEntries \X ScheduleEntries :
                                        q[2].frame >= q[1].frame}}

InitHarness ==
    /\ \E inputs \in HarnessSchedules, delay \in 1..MaxDelay :
          h = [on |-> TRUE, inputs |-> inputs, delay |-> delay,
               cA |-> createSimulation(7), cB |-> createSimulation(7),
               snapshot |-> saveSnapshot(createSimulation(7)),
               idxA |-> 1, idxB |-> 1, loopA |-> 0, loopB |-> 0]
    /\ w = [i \in Replicas |-> ScenarioWorld("fresh", i, 7)]
    /\ phase = "idle"
    /\ contactOrder = "both"
    /\ connected = {}
    /\ events = 0
    /\ last = NoLast
    /\ mode = "live"
    /\ snap = NoSnap
    /\ log = <<>>
    /\ queue = <<>>
    /\ ref = EmptyWorld(<<>>, 0)

Gameless == UNCHANGED <<w, phase, contactOrder, connected, events, last, mode, snap, log,
                        queue, ref>>

ClientAFrame ==
    /\ h.on
    /\ h.loopA < HarnessFrames
    /\ LET got == onTimeInputs(h.cA, h.inputs, h.idxA, h.loopA)
       IN  h' = [h EXCEPT !.cA = stepSimulation(got.sim), !.idxA = got.idx, !.loopA = @ + 1]
    /\ Gameless

ClientBFrame ==
    /\ h.on
    /\ h.loopB < HarnessFrames
    /\ LET got == lateInputs(h.cB, h.snapshot, h.inputs, h.idxB, h.loopB, h.delay)
       IN  h' = [h EXCEPT !.cB = stepSimulation(got.sim), !.idxB = got.idx, !.loopB = @ + 1]
    /\ Gameless

NextHarness == ClientAFrame \/ ClientBFrame

SpecHarness == InitHarness /\ [][NextHarness]_vars

\* world.getStateHash(): equal exactly when the component values are equal
getStateHash(sim) == sim.cells

HarnessDone == h.on /\ h.loopA = HarnessFrames /\ h.loopB = HarnessFrames

\* C3: a client that receives its inputs late, restores the earlier
\* snapshot, applies the late inputs and resimulates to the current frame
\* ends in the state of the client that received every input on time, for
\* every delay and any number of rollbacks.
C3_LateInputConvergence ==
    HarnessDone => getStateHash(h.cA) = getStateHash(h.cB)

====
